---- MODULE Spec2Model ----
(***************************************************************************)
(* Session / credential lifecycle of SMART-TASK-AI2's AuthService and      *)
(* SessionRepository (server/src/modules/auth/auth.service.ts).            *)
(*                                                                         *)
(* Every handler is modelled once, as a step function over the store: one  *)
(* step per awaited store call.  The sequential specification Spec runs a  *)
(* handler to completion in one action; the concurrent specification       *)
(* SpecRace interleaves the steps of two requests.                         *)
(***************************************************************************)
EXTENDS Integers, Sequences, FiniteSets, TLC

\* ------------------------------------------------------------------ bounds
\* The clock runs over 0..MaxTime (abstract time units).
MaxTime == 3
\* Session ids / refresh tokens are 1..MaxSessions (uuidv4 never repeats).
MaxSessions == 2
\* authConfig.security.maxFailedLoginAttempts (configurable, default 5).
MaxFailedLoginAttempts == 2
\* authConfig.security.accountLockoutDuration, in clock units (default 15 min).
AccountLockoutDuration == 1
\* createUserSession's horizon, in clock units (7 days in the source).
SessionHorizon == 2
\* authConfig.jwt.accessTokenExpiry, in clock units (default 10 min).
AccessTokenExpiry == 1

\* ------------------------------------------------------------- value domains
\* A nullable value is <<>> (null) or <<v>>.
Null == <<>>
Some(v) == <<v>>

\* E-mail addresses are sequences of characters; only the local part varies.
LowerChar(c) ==
  CASE c = "A" -> "a"
    [] c = "B" -> "b"
    [] OTHER -> c

\* Mutant of ToLowerCase: the e-mail is stored and looked up as typed.
ToLowerCase_Identity(s) == s

\* String.prototype.toLowerCase, character by character.
ToLowerCase(s) == [i \in DOMAIN s |-> LowerChar(s[i])]

\* argon2.hash / argon2.verify: an opaque digest that verifies exactly the
\* plaintext it was made from.
Hash(p) == <<"argon2id", p>>
\* Mutant of Verify: every password verifies.
Verify_AnyPassword(digest, p) == TRUE

Verify(digest, p) == digest = Hash(p)

\* ------------------------------------------------------------ store: users
\* users: [id -> record], ids 1..n in creation order (users are never deleted).
\* prisma.user.findUnique({where: {email}}): the id, or 0 for null.
FindUserByEmail(us, e) ==
  IF \E i \in DOMAIN us : us[i].email = e
  THEN CHOOSE i \in DOMAIN us : us[i].email = e
  ELSE 0

\* Column defaults of the User table, which prisma.user.create fills in.
UserDefaults ==
  [isActive |-> TRUE, isLocked |-> FALSE, failedLoginAttempts |-> 0,
   lockedUntil |-> Null]

\* The unique constraint of the User table on email: create throws.
UniqueViolation(us, e) == \E i \in DOMAIN us : us[i].email = e

\* prisma.user.create({data: {email, password, name}}).
NewUser(e, p) ==
  [email |-> e, password |-> Hash(p),
   isActive |-> UserDefaults.isActive, isLocked |-> UserDefaults.isLocked,
   failedLoginAttempts |-> UserDefaults.failedLoginAttempts,
   lockedUntil |-> UserDefaults.lockedUntil]

CreateUser(us, e, p) == us @@ (Cardinality(DOMAIN us) + 1 :> NewUser(e, p))

\* Mutant of LockedInFuture: no lock is ever taken as still running.
LockedInFuture_Never(user, t) == FALSE

\* Mutant of LockedInFuture: the lock still holds at the instant lockedUntil.
LockedInFuture_Inclusive(user, t) == user.lockedUntil # Null /\ user.lockedUntil[1] >= t

\* login's lock test: user.lockedUntil && user.lockedUntil > new Date()
LockedInFuture(user, t) == user.lockedUntil # Null /\ user.lockedUntil[1] > t

\* Mutant of UnlockAccount: the lock is cleared, the counter is kept.
UnlockAccount_KeepCount(us, uid) ==
  [us EXCEPT ![uid].isLocked = FALSE, ![uid].lockedUntil = Null]

UnlockAccount(us, uid) ==
  [us EXCEPT ![uid].isLocked = FALSE, ![uid].lockedUntil = Null,
             ![uid].failedLoginAttempts = 0]

ResetFailedLoginAttempts(us, uid) ==
  [us EXCEPT ![uid].failedLoginAttempts = 0, ![uid].isLocked = FALSE,
             ![uid].lockedUntil = Null]

\* Mutant of ShouldLockAccount: the lock comes one failure late.
ShouldLockAccount_OffByOne(n) == n > MaxFailedLoginAttempts

ShouldLockAccount(n) == n >= MaxFailedLoginAttempts

\* Mutant of RecordFailedLogin: the lock is set without its end.
RecordFailedLogin_NoEnd(us, uid, n, t) ==
  IF ShouldLockAccount(n + 1)
  THEN [us EXCEPT ![uid].failedLoginAttempts = n + 1, ![uid].isLocked = TRUE]
  ELSE [us EXCEPT ![uid].failedLoginAttempts = n + 1]

\* handleFailedLogin's update, from the count n it read.
RecordFailedLogin(us, uid, n, t) ==
  IF ShouldLockAccount(n + 1)
  THEN [us EXCEPT ![uid].failedLoginAttempts = n + 1, ![uid].isLocked = TRUE,
                  ![uid].lockedUntil = Some(t + AccountLockoutDuration)]
  ELSE [us EXCEPT ![uid].failedLoginAttempts = n + 1]

\* --------------------------------------------------------- store: sessions
\* sessions: [id -> record]; the refresh token of session id is the value id.
FindByRefreshToken(ss, tok) ==
  IF \E i \in DOMAIN ss : ss[i].refreshToken = tok
  THEN CHOOSE i \in DOMAIN ss : ss[i].refreshToken = tok
  ELSE 0

\* Column defaults of the Session table at time t.
SessionDefaults(t) == [isRevoked |-> FALSE, createdAt |-> t]

\* Mutant of NewSession: the 7-day horizon is not added.
NewSession_NoHorizon(sid, uid, t) ==
  [userId |-> uid, refreshToken |-> sid, expiresAt |-> t,
   isRevoked |-> SessionDefaults(t).isRevoked,
   createdAt |-> SessionDefaults(t).createdAt]

\* Mutant of NewSession: every session gets the same refresh token.
NewSession_SameToken(sid, uid, t) ==
  [userId |-> uid, refreshToken |-> 1, expiresAt |-> t + SessionHorizon,
   isRevoked |-> SessionDefaults(t).isRevoked,
   createdAt |-> SessionDefaults(t).createdAt]

\* createUserSession and createSession: a fresh token (the session's number
\* stands for the uuid), expiresAt 7 days ahead.
NewSession(sid, uid, t) ==
  [userId |-> uid, refreshToken |-> sid, expiresAt |-> t + SessionHorizon,
   isRevoked |-> SessionDefaults(t).isRevoked,
   createdAt |-> SessionDefaults(t).createdAt]

CreateSession(ss, sid, uid, t) == ss @@ (sid :> NewSession(sid, uid, t))

\* Mutant of RevokeMatches: the userId filter is left out.
RevokeMatches_AnyOwner(ss, sid, owner) == {i \in DOMAIN ss : i = sid}

\* Mutant of RevokeMatches: the userId filter is applied even when no owner
\* is given.
RevokeMatches_OwnerRequired(ss, sid, owner) ==
  {i \in DOMAIN ss : i = sid /\ ss[i].userId = owner}

\* updateMany's where clause of revokeSession: id, and userId when given
\* (owner = 0 stands for the omitted argument).
RevokeMatches(ss, sid, owner) ==
  {i \in DOMAIN ss : i = sid /\ (owner # 0 => ss[i].userId = owner)}

\* Mutant of RevokeSessionById: every session of the session's owner is revoked.
RevokeSessionById_AllOfOwner(ss, sid, owner) ==
  [i \in DOMAIN ss |->
     IF \E j \in RevokeMatches(ss, sid, owner) : ss[j].userId = ss[i].userId
     THEN [ss[i] EXCEPT !.isRevoked = TRUE] ELSE ss[i]]

RevokeSessionById(ss, sid, owner) ==
  [i \in DOMAIN ss |->
     IF i \in RevokeMatches(ss, sid, owner)
     THEN [ss[i] EXCEPT !.isRevoked = TRUE] ELSE ss[i]]

\* Mutant of RevokeAllMatches: the filter reads isRevoked: true.
RevokeAllMatches_Revoked(ss, uid) ==
  {i \in DOMAIN ss : ss[i].userId = uid /\ ss[i].isRevoked}

\* updateMany's where clause of revokeAllSessionsByUserId.
RevokeAllMatches(ss, uid) ==
  {i \in DOMAIN ss : ss[i].userId = uid /\ ~ss[i].isRevoked}

\* Mutant of RevokeAllSessionsByUserId: the userId filter is lost.
RevokeAllSessionsByUserId_Everyone(ss, uid) ==
  [i \in DOMAIN ss |-> [ss[i] EXCEPT !.isRevoked = TRUE]]

\* Mutant of RevokeAllSessionsByUserId: update instead of updateMany, one record.
RevokeAllSessionsByUserId_First(ss, uid) ==
  [i \in DOMAIN ss |->
     IF i \in RevokeAllMatches(ss, uid) /\ \A j \in RevokeAllMatches(ss, uid) : i <= j
     THEN [ss[i] EXCEPT !.isRevoked = TRUE] ELSE ss[i]]

RevokeAllSessionsByUserId(ss, uid) ==
  [i \in DOMAIN ss |->
     IF i \in RevokeAllMatches(ss, uid)
     THEN [ss[i] EXCEPT !.isRevoked = TRUE] ELSE ss[i]]

SessionExpired(sess, t) == sess.expiresAt < t

\* findActiveSessionsByUserId's where clause (the ids; ordering: see below).
\* Mutant of ActiveSessionIds: gte instead of gt on expiresAt.
ActiveSessionIds_UpToExpiry(ss, uid, t) ==
  {i \in DOMAIN ss : ss[i].userId = uid /\ ~ss[i].isRevoked /\ ss[i].expiresAt >= t}

ActiveSessionIds(ss, uid, t) ==
  {i \in DOMAIN ss : ss[i].userId = uid /\ ~ss[i].isRevoked /\ ss[i].expiresAt > t}

\* Mutant of ExpiredSessionIds: revoked sessions are kept.
ExpiredSessionIds_UnrevokedOnly(ss, t) ==
  {i \in DOMAIN ss : ss[i].expiresAt < t /\ ~ss[i].isRevoked}

\* deleteMany's where clause of cleanupExpiredSessions.
ExpiredSessionIds(ss, t) == {i \in DOMAIN ss : ss[i].expiresAt < t}

\* What getUserSessions returns of a session.
SessionSummary(ss, i) ==
  [id |-> i, createdAt |-> ss[i].createdAt, expiresAt |-> ss[i].expiresAt,
   isRevoked |-> ss[i].isRevoked]

\* findActiveSessionsByUserId's orderBy createdAt desc: every order of the
\* active sessions the database may return (ties are in no fixed order).
ActiveSessionLists(ss, uid, t) ==
  LET ids == ActiveSessionIds(ss, uid, t) IN
  {q \in [1..Cardinality(ids) -> ids] :
     \A i, j \in 1..Cardinality(ids) :
       i < j => (q[i] # q[j] /\ ss[q[i]].createdAt >= ss[q[j]].createdAt)}

\* ------------------------------------------------------------ access token
\* authConfig.jwt.secret.
JwtSecret == "secret"

\* The values serverEnvSchema.JWT_ALGORITHM admits.
JwtAlgorithms == {"HS256", "HS384", "HS512"}

\* jsonwebtoken signs with HS256 when options.algorithm is not given.
JwtDefaultAlgorithm == "HS256"

\* The HMAC of a header and payload under a key.
JwtMac(alg, secret, payload) == <<alg, secret, payload>>

\* jwt.sign(payload, secret, options): a token is its header algorithm, its
\* payload and the HMAC of both.
JwtSign(payload, secret, alg) ==
  [wellFormed |-> TRUE, alg |-> alg, payload |-> payload,
   mac |-> JwtMac(alg, secret, payload)]

\* generateAccessToken: expiresIn, issuer and audience are given, algorithm is not.
GenerateAccessToken(uid, user, t) ==
  JwtSign([userId |-> uid, email |-> user.email, type |-> "access",
           iss |-> "smart-task-ai2", aud |-> "smart-task-ai2-users",
           exp |-> t + AccessTokenExpiry],
          JwtSecret, JwtDefaultAlgorithm)

\* jwt.verify(token, secret, {algorithms}): the error thrown ("" for none) and
\* the decoded payload. No issuer or audience option is given, so neither is
\* compared; a token is expired from the instant exp on.
JwtVerify(tok, secret, algs, t) ==
  IF ~tok.wellFormed THEN [err |-> "JsonWebTokenError: jwt malformed"]
  ELSE IF tok.alg \notin algs THEN [err |-> "JsonWebTokenError: invalid algorithm"]
  ELSE IF tok.mac # JwtMac(tok.alg, secret, tok.payload)
  THEN [err |-> "JsonWebTokenError: invalid signature"]
  ELSE IF t >= tok.payload.exp THEN [err |-> "TokenExpiredError"]
  ELSE [err |-> "", payload |-> tok.payload]

\* Mutant of ValidateAccessToken: the type claim is not looked at.
ValidateAccessToken_AnyType(tok, alg, t) ==
  LET v == JwtVerify(tok, JwtSecret, {alg}, t) IN
  IF v.err # "" THEN [code |-> "OK", ret |-> Null]
  ELSE [code |-> "OK",
        ret |-> Some([userId |-> v.payload.userId, email |-> v.payload.email])]

\* validateAccessToken under the configured algorithm alg: the catch block
\* returns null for whatever jwt.verify throws.
ValidateAccessToken(tok, alg, t) ==
  LET v == JwtVerify(tok, JwtSecret, {alg}, t) IN
  IF v.err # "" THEN [code |-> "OK", ret |-> Null]
  ELSE IF v.payload.type # "access" THEN [code |-> "OK", ret |-> Null]
  ELSE [code |-> "OK",
        ret |-> Some([userId |-> v.payload.userId, email |-> v.payload.email])]

\* ------------------------------------------------------------------ frames
\* A frame is one request in flight: the handler (op), its arguments, where it
\* stands (pc: the next awaited store call, or "done"), what it has read so far
\* (user, sess, n), the store call that is made to throw (f, "none": no
\* failure) and, once done, its outcome (code: "OK" or the AuthError code; ret).
\* jwt and at are the access token handed to validateAccessToken and the time
\* of that call; hist is history: whether the session a refresh token names
\* was good for a refresh when the request arrived (null: no such session).
Idle ==
  [op |-> "idle", pc |-> "done", email |-> <<>>, pw |-> "", npw |-> "",
   tok |-> 0, uid |-> 0, sid |-> 0, f |-> "none", user |-> Null, sess |-> Null,
   hid |-> 0, n |-> 0, code |-> "", msg |-> "", ret |-> Null, audit |-> {},
   jwt |-> Null, at |-> 0, hist |-> Null]

Start(op, f) == [Idle EXCEPT !.op = op, !.pc = "find", !.f = f]

\* The handler returns or throws an AuthError of its own: no store call failed.
Done(fr, code) == [fr EXCEPT !.pc = "done", !.code = code, !.f = "none"]

\* The store call at fr.pc threw; the handler's catch block turns it into code.
Thrown(fr, code) == [fr EXCEPT !.pc = "done", !.code = code]

Goto(fr, pc) == [fr EXCEPT !.pc = pc]

\* auditLog(event, userId, ...); userId 0 stands for undefined.
Audit(fr, event, uid) == [fr EXCEPT !.audit = @ \cup {<<event, uid>>}]

Fails(fr) == fr.f = fr.pc

\* The store a handler works on.
St(us, ss, n) == [users |-> us, sessions |-> ss, nextSid |-> n]

Out(S, fr) == [S |-> S, fr |-> fr]

\* ---------------------------------------------------------------- register
RegisterStep(S, fr, t) ==
  LET e == ToLowerCase(fr.email) IN
  CASE fr.pc = "find" ->
         IF Fails(fr) THEN Out(S, Thrown(fr, "REGISTRATION_FAILED"))
         ELSE IF FindUserByEmail(S.users, e) # 0
         THEN Out(S, Done(fr, "USER_EXISTS"))
         ELSE Out(S, Goto(fr, "create"))
    [] fr.pc = "create" ->
         IF Fails(fr) THEN Out(S, Thrown(fr, "REGISTRATION_FAILED"))
         \* a Prisma error is no AuthError: the catch block makes it generic
         ELSE IF UniqueViolation(S.users, e)
         THEN Out(S, Done(fr, "REGISTRATION_FAILED"))
         ELSE LET us == CreateUser(S.users, e, fr.pw)
                  id == Cardinality(DOMAIN us)
              IN Out([S EXCEPT !.users = us],
                     [Goto(fr, "session") EXCEPT !.uid = id, !.user = Some(us[id])])
    [] fr.pc = "session" ->
         IF Fails(fr) THEN Out(S, Thrown(fr, "REGISTRATION_FAILED"))
         ELSE LET sid == S.nextSid IN
              Out([S EXCEPT !.sessions = CreateSession(@, sid, fr.uid, t),
                            !.nextSid = sid + 1],
                  Done(Audit([fr EXCEPT !.sid = sid,
                                !.ret = Some([refreshToken |-> sid,
                                   accessToken |-> GenerateAccessToken(fr.uid, fr.user[1], t)])],
                             "user_registered", fr.uid), "OK"))

\* ------------------------------------------------------------------- login
\* Mutant of LoginAfterLock: the password is checked before the active flag.
LoginAfterLock_PasswordFirst(fr) ==
  LET user == fr.user[1] IN
  IF ~Verify(user.password, fr.pw) THEN Goto(fr, "hflFind")
  ELSE IF ~user.isActive THEN Done(fr, "ACCOUNT_INACTIVE")
  ELSE IF user.failedLoginAttempts > 0 THEN Goto(fr, "reset")
  ELSE Goto(fr, "session")

\* login after the lock test: the active test and the password check, both on
\* the user record read at the start.
LoginAfterLock(fr) ==
  LET user == fr.user[1] IN
  IF ~user.isActive THEN Done(fr, "ACCOUNT_INACTIVE")
  ELSE IF ~Verify(user.password, fr.pw) THEN Goto(fr, "hflFind")
  ELSE IF user.failedLoginAttempts > 0 THEN Goto(fr, "reset")
  ELSE Goto(fr, "session")

\* Mutant of UnknownEmailError: an unknown e-mail gets an answer of its own.
UnknownEmailError_Distinct ==
  [code |-> "USER_NOT_FOUND", message |-> "User not found"]

\* The AuthError login throws when no user has the e-mail.
UnknownEmailError ==
  [code |-> "INVALID_CREDENTIALS", message |-> "Invalid email or password"]

\* The AuthError login throws when the password does not verify.
WrongPasswordError ==
  [code |-> "INVALID_CREDENTIALS", message |-> "Invalid email or password"]

\* Mutant of InvalidCredentials: a store failure inside handleFailedLogin
\* reaches login's catch block and becomes LOGIN_FAILED.
InvalidCredentials_Rethrow(fr) ==
  IF fr.f # "none"
  THEN [fr EXCEPT !.pc = "done", !.code = "LOGIN_FAILED", !.msg = "Login failed"]
  ELSE [fr EXCEPT !.pc = "done", !.code = "INVALID_CREDENTIALS",
                  !.msg = "Invalid email or password"]

\* login's throw after handleFailedLogin has returned: fr.uid is 0 when the
\* first lookup found no user.
InvalidCredentials(fr) ==
  LET err == IF fr.uid = 0 THEN UnknownEmailError ELSE WrongPasswordError IN
  [fr EXCEPT !.pc = "done", !.code = err.code, !.msg = err.message]

LoginStep(S, fr, t) ==
  LET e == ToLowerCase(fr.email) IN
  CASE fr.pc = "find" ->
         IF Fails(fr) THEN Out(S, Thrown(fr, "LOGIN_FAILED"))
         ELSE LET uid == FindUserByEmail(S.users, e) IN
              IF uid = 0 THEN Out(S, Goto(fr, "hflFind"))
              ELSE LET fr1 == [fr EXCEPT !.uid = uid, !.user = Some(S.users[uid])] IN
                   IF S.users[uid].isLocked
                   THEN IF LockedInFuture(S.users[uid], t)
                        THEN Out(S, Done(fr1, "ACCOUNT_LOCKED"))
                        ELSE Out(S, Goto(fr1, "unlock"))
                   ELSE Out(S, LoginAfterLock(fr1))
    [] fr.pc = "unlock" ->
         IF Fails(fr) THEN Out(S, Thrown(fr, "LOGIN_FAILED"))
         ELSE Out([S EXCEPT !.users = UnlockAccount(@, fr.uid)], LoginAfterLock(fr))
    \* handleFailedLogin: its own read of the user, then the update; whatever
    \* it throws is swallowed and login throws INVALID_CREDENTIALS
    [] fr.pc = "hflFind" ->
         IF Fails(fr) THEN Out(S, InvalidCredentials(fr))
         ELSE LET hid == FindUserByEmail(S.users, e) IN
              IF hid = 0 THEN Out(S, InvalidCredentials([fr EXCEPT !.f = "none"]))
              ELSE Out(S, [Goto(fr, "hflUpdate") EXCEPT
                             !.hid = hid, !.n = S.users[hid].failedLoginAttempts])
    [] fr.pc = "hflUpdate" ->
         IF Fails(fr) THEN Out(S, InvalidCredentials(fr))
         ELSE Out([S EXCEPT !.users = RecordFailedLogin(@, fr.hid, fr.n, t)],
                  InvalidCredentials(
                    Audit([fr EXCEPT !.f = "none"],
                          IF ShouldLockAccount(fr.n + 1) THEN "account_locked"
                          ELSE "failed_login_attempt", fr.hid)))
    [] fr.pc = "reset" ->
         IF Fails(fr) THEN Out(S, Thrown(fr, "LOGIN_FAILED"))
         ELSE Out([S EXCEPT !.users = ResetFailedLoginAttempts(@, fr.uid)],
                  Goto(fr, "session"))
    [] fr.pc = "session" ->
         IF Fails(fr) THEN Out(S, Thrown(fr, "LOGIN_FAILED"))
         ELSE LET sid == S.nextSid IN
              Out([S EXCEPT !.sessions = CreateSession(@, sid, fr.uid, t),
                            !.nextSid = sid + 1],
                  Done(Audit([fr EXCEPT !.sid = sid,
                                !.ret = Some([refreshToken |-> sid,
                                   accessToken |-> GenerateAccessToken(fr.uid, fr.user[1], t)])],
                             "user_login", fr.uid), "OK"))

\* ------------------------------------------------------------ refreshToken
\* Mutant of RefreshSuccess: the refresh token is rotated, the presented
\* session being revoked and replaced by a new one.
RefreshSuccess_Rotating(S, fr, owner, t) ==
  Out([S EXCEPT !.sessions = CreateSession(RevokeSessionById(@, fr.sid, 0),
                                           S.nextSid, owner, t),
                !.nextSid = @ + 1],
      Done(Audit([fr EXCEPT !.uid = owner,
                    !.user = Some(S.users[owner]),
                    !.ret = Some([accessToken |->
                       GenerateAccessToken(owner, S.users[owner], t)])],
                 "token_refreshed", owner), "OK"))

\* refreshToken's last part: a new access token, nothing written.
RefreshSuccess(S, fr, owner, t) ==
  Out(S, Done(Audit([fr EXCEPT !.uid = owner,
                       !.user = Some(S.users[owner]),
                       !.ret = Some([accessToken |->
                          GenerateAccessToken(owner, S.users[owner], t)])],
                    "token_refreshed", owner), "OK"))

\* Mutant of RefreshBranch: the expiry test comes before the revoked test.
RefreshBranch_ExpiryFirst(sess, t) ==
  IF SessionExpired(sess, t) THEN "revokeExpired"
  ELSE IF sess.isRevoked THEN "revokeAll"
  ELSE "findUser"

\* refreshToken's tests on the session found, in the order of the code.
RefreshBranch(sess, t) ==
  IF sess.isRevoked THEN "revokeAll"
  ELSE IF SessionExpired(sess, t) THEN "revokeExpired"
  ELSE "findUser"

\* Mutant of UserInvalid: a locked user may still refresh.
UserInvalid_ActiveOnly(us, owner) ==
  owner \notin DOMAIN us \/ ~us[owner].isActive

\* refreshToken's test on the owner: !user || !user.isActive || user.isLocked.
UserInvalid(us, owner) ==
  owner \notin DOMAIN us \/ ~us[owner].isActive \/ us[owner].isLocked

RefreshTokenStep(S, fr, t) ==
  CASE fr.pc = "find" ->
         IF Fails(fr) THEN Out(S, Thrown(fr, "REFRESH_FAILED"))
         ELSE LET sid == FindByRefreshToken(S.sessions, fr.tok) IN
              IF sid = 0 THEN Out(S, Done(fr, "INVALID_REFRESH_TOKEN"))
              ELSE LET fr1 == [fr EXCEPT !.sid = sid, !.sess = Some(S.sessions[sid])] IN
                   Out(S, Goto(fr1, RefreshBranch(S.sessions[sid], t)))
    [] fr.pc = "revokeAll" ->
         IF Fails(fr) THEN Out(S, Thrown(fr, "REFRESH_FAILED"))
         ELSE LET owner == fr.sess[1].userId IN
              Out([S EXCEPT !.sessions = RevokeAllSessionsByUserId(@, owner)],
                  Done(Audit(Audit(fr, "all_sessions_revoked", owner),
                             "token_reuse_detected", owner),
                       "TOKEN_REUSE_DETECTED"))
    [] fr.pc = "revokeExpired" ->
         IF Fails(fr) THEN Out(S, Thrown(fr, "REFRESH_FAILED"))
         ELSE Out([S EXCEPT !.sessions = RevokeSessionById(@, fr.sid, 0)],
                  Done(IF RevokeMatches(S.sessions, fr.sid, 0) # {}
                       THEN Audit(fr, "session_revoked", 0) ELSE fr,
                       "REFRESH_TOKEN_EXPIRED"))
    [] fr.pc = "findUser" ->
         IF Fails(fr) THEN Out(S, Thrown(fr, "REFRESH_FAILED"))
         ELSE LET owner == fr.sess[1].userId IN
              IF UserInvalid(S.users, owner)
              THEN Out(S, Goto(fr, "revokeInvalid"))
              ELSE RefreshSuccess(S, fr, owner, t)
    [] fr.pc = "revokeInvalid" ->
         IF Fails(fr) THEN Out(S, Thrown(fr, "REFRESH_FAILED"))
         ELSE Out([S EXCEPT !.sessions = RevokeSessionById(@, fr.sid, 0)],
                  Done(IF RevokeMatches(S.sessions, fr.sid, 0) # {}
                       THEN Audit(fr, "session_revoked", 0) ELSE fr,
                       "USER_INVALID"))

\* Mutant of LogoutStep: a logout that finds its session revoked treats it
\* as a replay and revokes every session of the owner.
LogoutStep_ReplayDetect(S, fr, t) ==
  CASE fr.pc = "find" ->
         IF Fails(fr) THEN Out(S, Thrown(fr, "OK"))
         ELSE LET sid == FindByRefreshToken(S.sessions, fr.tok) IN
              IF sid = 0 THEN Out(S, Done(fr, "OK"))
              ELSE Out(S, [Goto(fr, "revoke") EXCEPT
                             !.sid = sid, !.sess = Some(S.sessions[sid])])
    [] fr.pc = "revoke" ->
         IF Fails(fr) THEN Out(S, Thrown(fr, "OK"))
         ELSE IF fr.sess[1].isRevoked
         THEN Out([S EXCEPT !.sessions =
                      RevokeAllSessionsByUserId(@, fr.sess[1].userId)],
                  Done(Audit(fr, "all_sessions_revoked", fr.sess[1].userId), "OK"))
         ELSE Out([S EXCEPT !.sessions = RevokeSessionById(@, fr.sid, 0)],
                  Done(Audit(IF RevokeMatches(S.sessions, fr.sid, 0) # {}
                             THEN Audit(fr, "session_revoked", 0) ELSE fr,
                             "user_logout", fr.sess[1].userId), "OK"))

\* Mutant of LogoutStep: the catch block rethrows, as the other handlers do.
LogoutStep_Rethrow(S, fr, t) ==
  CASE fr.pc = "find" ->
         IF Fails(fr) THEN Out(S, Thrown(fr, "LOGOUT_FAILED"))
         ELSE LET sid == FindByRefreshToken(S.sessions, fr.tok) IN
              IF sid = 0 THEN Out(S, Done(fr, "OK"))
              ELSE Out(S, [Goto(fr, "revoke") EXCEPT
                             !.sid = sid, !.sess = Some(S.sessions[sid])])
    [] fr.pc = "revoke" ->
         IF Fails(fr) THEN Out(S, Thrown(fr, "LOGOUT_FAILED"))
         ELSE Out([S EXCEPT !.sessions = RevokeSessionById(@, fr.sid, 0)],
                  Done(Audit(fr, "user_logout", fr.sess[1].userId), "OK"))

\* ------------------------------------------------------------------ logout
\* logout returns void; its catch block swallows every failure.
LogoutStep(S, fr, t) ==
  CASE fr.pc = "find" ->
         IF Fails(fr) THEN Out(S, Thrown(fr, "OK"))
         ELSE LET sid == FindByRefreshToken(S.sessions, fr.tok) IN
              IF sid = 0 THEN Out(S, Done(fr, "OK"))
              ELSE Out(S, [Goto(fr, "revoke") EXCEPT
                             !.sid = sid, !.sess = Some(S.sessions[sid])])
    [] fr.pc = "revoke" ->
         IF Fails(fr) THEN Out(S, Thrown(fr, "OK"))
         ELSE Out([S EXCEPT !.sessions = RevokeSessionById(@, fr.sid, 0)],
                  Done(Audit(IF RevokeMatches(S.sessions, fr.sid, 0) # {}
                             THEN Audit(fr, "session_revoked", 0) ELSE fr,
                             "user_logout", fr.sess[1].userId), "OK"))

\* ---------------------------------------------------------- changePassword
ChangePasswordStep(S, fr, t) ==
  CASE fr.pc = "find" ->
         IF Fails(fr) THEN Out(S, Thrown(fr, "PASSWORD_CHANGE_FAILED"))
         ELSE IF fr.uid \notin DOMAIN S.users THEN Out(S, Done(fr, "USER_NOT_FOUND"))
         ELSE IF ~Verify(S.users[fr.uid].password, fr.pw)
         THEN Out(S, Done([fr EXCEPT !.user = Some(S.users[fr.uid])], "INVALID_PASSWORD"))
         ELSE Out(S, [Goto(fr, "update") EXCEPT !.user = Some(S.users[fr.uid])])
    [] fr.pc = "update" ->
         IF Fails(fr) THEN Out(S, Thrown(fr, "PASSWORD_CHANGE_FAILED"))
         ELSE Out([S EXCEPT !.users[fr.uid].password = Hash(fr.npw)],
                  Goto(fr, "revokeAll"))
    [] fr.pc = "revokeAll" ->
         IF Fails(fr) THEN Out(S, Thrown(fr, "PASSWORD_CHANGE_FAILED"))
         ELSE Out([S EXCEPT !.sessions = RevokeAllSessionsByUserId(@, fr.uid)],
                  Done(Audit(Audit(fr, "all_sessions_revoked", fr.uid),
                             "password_changed", fr.uid), "OK"))

\* ------------------------------------------------------- updateUserProfile
\* The e-mail part of updateUserProfile (fr.email = <<>>: data.email undefined,
\* only the name is updated).
UpdateUserProfileStep(S, fr, t) ==
  LET e == ToLowerCase(fr.email) IN
  CASE fr.pc = "find" ->
         IF fr.email = <<>> THEN Out(S, Goto(fr, "update"))
         ELSE IF Fails(fr) THEN Out(S, Thrown(fr, "PROFILE_UPDATE_FAILED"))
         ELSE LET other == FindUserByEmail(S.users, e) IN
              IF other # 0 /\ other # fr.uid THEN Out(S, Done(fr, "EMAIL_TAKEN"))
              ELSE Out(S, Goto(fr, "update"))
    [] fr.pc = "update" ->
         IF Fails(fr) THEN Out(S, Thrown(fr, "PROFILE_UPDATE_FAILED"))
         \* prisma.user.update throws when the record is missing or when the new
         \* e-mail violates the unique constraint
         ELSE IF fr.uid \notin DOMAIN S.users
                 \/ (fr.email # <<>> /\ FindUserByEmail(S.users, e) \notin {0, fr.uid})
         THEN Out(S, Done(fr, "PROFILE_UPDATE_FAILED"))
         ELSE Out(IF fr.email = <<>> THEN S ELSE [S EXCEPT !.users[fr.uid].email = e],
                  Done(Audit(fr, "profile_updated", fr.uid), "OK"))

\* ------------------------------------------ revokeSession, revokeAllSessions
RevokeSessionStep(S, fr, t) ==
  IF Fails(fr) THEN Out(S, Thrown(fr, "SESSION_REVOKE_FAILED"))
  ELSE LET hit == RevokeMatches(S.sessions, fr.sid, fr.uid) # {} IN
       Out([S EXCEPT !.sessions = RevokeSessionById(@, fr.sid, fr.uid)],
           Done([(IF hit THEN Audit(fr, "session_revoked", fr.uid) ELSE fr)
                   EXCEPT !.ret = Some(hit)], "OK"))

RevokeAllSessionsStep(S, fr, t) ==
  IF Fails(fr) THEN Out(S, Thrown(fr, "SESSIONS_REVOKE_FAILED"))
  ELSE Out([S EXCEPT !.sessions = RevokeAllSessionsByUserId(@, fr.uid)],
           Done([Audit(fr, "all_sessions_revoked", fr.uid) EXCEPT
                   !.ret = Some(Cardinality(RevokeAllMatches(S.sessions, fr.uid)))],
                "OK"))

\* --------------------------------------------------- cleanupExpiredSessions
CleanupExpiredSessionsStep(S, fr, t) ==
  IF Fails(fr) THEN Out(S, Thrown(fr, "CLEANUP_FAILED"))
  ELSE LET gone == ExpiredSessionIds(S.sessions, t) IN
       Out([S EXCEPT !.sessions = [i \in DOMAIN S.sessions \ gone |-> S.sessions[i]]],
           Done([fr EXCEPT !.ret = Some(Cardinality(gone))], "OK"))

\* ------------------------------------------------------------- the handlers
\* --------------------------------------------------------- getUserProfile
\* The fields getUserProfile selects.
UserProfile(uid, user) ==
  [id |-> uid, email |-> user.email, isActive |-> user.isActive]

\* getUserProfile(userId): the user's profile or null; its catch block logs
\* the error and returns null.
GetUserProfileStep(S, fr, t) ==
  CASE fr.pc = "find" ->
         IF Fails(fr) THEN Out(S, Thrown(fr, "OK"))
         ELSE IF fr.uid \notin DOMAIN S.users THEN Out(S, Done(fr, "OK"))
         ELSE Out(S, Done([fr EXCEPT !.ret = Some(UserProfile(fr.uid, S.users[fr.uid]))], "OK"))

Step(S, fr, t) ==
  CASE fr.op = "register" -> RegisterStep(S, fr, t)
    [] fr.op = "login" -> LoginStep(S, fr, t)
    [] fr.op = "refreshToken" -> RefreshTokenStep(S, fr, t)
    [] fr.op = "logout" -> LogoutStep(S, fr, t)
    [] fr.op = "changePassword" -> ChangePasswordStep(S, fr, t)
    [] fr.op = "updateUserProfile" -> UpdateUserProfileStep(S, fr, t)
    [] fr.op = "revokeSession" -> RevokeSessionStep(S, fr, t)
    [] fr.op = "revokeAllSessions" -> RevokeAllSessionsStep(S, fr, t)
    [] fr.op = "cleanupExpiredSessions" -> CleanupExpiredSessionsStep(S, fr, t)
    [] fr.op = "getUserProfile" -> GetUserProfileStep(S, fr, t)

\* A request executed without interleaving: its steps one after another.
RECURSIVE Run(_, _, _)
Run(S, fr, t) ==
  IF fr.pc = "done" THEN Out(S, fr)
  ELSE LET o == Step(S, fr, t) IN Run(o.S, o.fr, t)

\* ------------------------------------------------------------------- state
VARIABLES
  users,     \* the User table
  sessions,  \* the Session table
  nextSid,   \* the next fresh session id / refresh token
  now,       \* the clock
  frames,    \* per request slot: the request in flight or the last one completed
  issued,    \* history: the owner of every refresh token ever issued
  recorded,  \* history (SpecRace): per user, the failed attempts recorded by
             \* handleFailedLogin since the counter was last reset to 0
  jwtAlgorithm  \* authConfig.jwt.algorithm, fixed when the process starts

vars == <<users, sessions, nextSid, now, frames, issued, recorded, jwtAlgorithm>>

Procs == {1, 2}

\* Inputs.
Emails == {<<"a">>, <<"A">>, <<"b">>}
OneEmail == {<<"A">>}
Passwords == {"p", "q"}
OnePassword == {"p"}
UserIds == {1, 2}
OneUser == {1}
\* Every token that can have been issued, and one that never is.
Tokens == 1..(MaxSessions + 1)

\* The store calls of each handler that can be made to throw.
FaultsOf(op) ==
  CASE op = "register" -> {"find", "create", "session"}
    [] op = "login" -> {"find", "unlock", "hflFind", "hflUpdate", "reset", "session"}
    [] op = "refreshToken" -> {"find", "revokeAll", "revokeExpired", "findUser", "revokeInvalid"}
    [] op = "logout" -> {"find", "revoke"}
    [] op = "changePassword" -> {"find", "update", "revokeAll"}
    [] op = "updateUserProfile" -> {"find", "update"}
    [] OTHER -> {"find"}

FaultChoice(op, faulty) == IF faulty THEN FaultsOf(op) \cup {"none"} ELSE {"none"}

Init ==
  /\ users = <<>>
  /\ sessions = <<>>
  /\ nextSid = 1
  /\ now = 0
  /\ frames = [p \in Procs |-> Idle]
  /\ issued = <<>>
  /\ recorded = [u \in UserIds |-> 0]
  /\ jwtAlgorithm = JwtDefaultAlgorithm

\* The store after a step, and the history of issued tokens.
Commit(S) ==
  /\ users' = S.users
  /\ sessions' = S.sessions
  /\ nextSid' = S.nextSid
  /\ issued' = IF S.nextSid > nextSid
               THEN Append(issued, S.sessions[nextSid].userId) ELSE issued

\* One request executed from start to end; slot 1 keeps its completed frame.
Exec(fr0) ==
  LET o == Run(St(users, sessions, nextSid), fr0, now) IN
  /\ Commit(o.S)
  /\ frames' = [frames EXCEPT ![1] = o.fr]
  /\ UNCHANGED <<now, recorded, jwtAlgorithm>>

Register(Em, Pw, faulty) ==
  \E e \in Em, p \in Pw, f \in FaultChoice("register", faulty) :
    /\ nextSid <= MaxSessions
    /\ Exec([Start("register", f) EXCEPT !.email = e, !.pw = p])

Login(Em, Pw, faulty) ==
  \E e \in Em, p \in Pw, f \in FaultChoice("login", faulty) :
    /\ nextSid <= MaxSessions
    /\ Exec([Start("login", f) EXCEPT !.email = e, !.pw = p])

RefreshToken(faulty) ==
  \E tok \in Tokens, f \in FaultChoice("refreshToken", faulty) :
    Exec([Start("refreshToken", f) EXCEPT !.tok = tok])

Logout(faulty) ==
  \E tok \in Tokens, f \in FaultChoice("logout", faulty) :
    Exec([Start("logout", f) EXCEPT !.tok = tok])

ChangePassword(Us, Pw, faulty) ==
  \E uid \in Us, p \in Pw, np \in Pw, f \in FaultChoice("changePassword", faulty) :
    Exec([Start("changePassword", f) EXCEPT !.uid = uid, !.pw = p, !.npw = np])

UpdateUserProfile(Us, Em, faulty) ==
  \E uid \in Us, e \in Em \cup {<<>>}, f \in FaultChoice("updateUserProfile", faulty) :
    Exec([Start("updateUserProfile", f) EXCEPT !.uid = uid, !.email = e])

RevokeSession(Us, faulty) ==
  \E uid \in Us, sid \in 1..MaxSessions, f \in FaultChoice("revokeSession", faulty) :
    Exec([Start("revokeSession", f) EXCEPT !.uid = uid, !.sid = sid])

RevokeAllSessions(Us, faulty) ==
  \E uid \in Us, f \in FaultChoice("revokeAllSessions", faulty) :
    Exec([Start("revokeAllSessions", f) EXCEPT !.uid = uid])

CleanupExpiredSessions(faulty) ==
  \E f \in FaultChoice("cleanupExpiredSessions", faulty) :
    Exec(Start("cleanupExpiredSessions", f))

\* An administrator (de)activates an account (adminUpdateUserSchema).
AdminSetActive ==
  \E uid \in DOMAIN users, b \in BOOLEAN :
    /\ users' = [users EXCEPT ![uid].isActive = b]
    /\ frames' = [frames EXCEPT ![1] = [Idle EXCEPT !.op = "adminUpdateUser", !.uid = uid]]
    /\ UNCHANGED <<sessions, nextSid, now, issued, recorded, jwtAlgorithm>>

\* Time passes between two requests.
Tick ==
  /\ now < MaxTime
  /\ now' = now + 1
  /\ frames' = [frames EXCEPT ![1] = [Idle EXCEPT !.op = "tick"]]
  /\ UNCHANGED <<users, sessions, nextSid, issued, recorded, jwtAlgorithm>>

\* Spec: one account, requests one at a time, a store that does not fail.
Next ==
  \/ Register(OneEmail, Passwords, FALSE)
  \/ Login(OneEmail, Passwords, FALSE)
  \/ RefreshToken(FALSE)
  \/ Logout(FALSE)
  \/ ChangePassword(OneUser, Passwords, FALSE)
  \/ RevokeSession(OneUser, FALSE)
  \/ RevokeAllSessions(OneUser, FALSE)
  \/ CleanupExpiredSessions(FALSE)
  \/ AdminSetActive
  \/ Tick

Spec == Init /\ [][Next]_vars

\* SpecMulti: several accounts and e-mail spellings, one password.
NextMulti ==
  \/ Register(Emails, OnePassword, FALSE)
  \/ Login(Emails, OnePassword, FALSE)
  \/ UpdateUserProfile(UserIds, Emails, FALSE)
  \/ RefreshToken(FALSE)
  \/ Logout(FALSE)
  \/ RevokeSession(UserIds, FALSE)
  \/ RevokeAllSessions(UserIds, FALSE)
  \/ AdminSetActive

SpecMulti == Init /\ [][NextMulti]_vars

\* getUserSessions: one findMany, mapped to summaries.
GetUserSessions(Us, faulty) ==
  \E uid \in Us, f \in FaultChoice("getUserSessions", faulty) :
    \E q \in IF f = "none" THEN ActiveSessionLists(sessions, uid, now) ELSE {<<>>} :
      /\ frames' = [frames EXCEPT ![1] =
           IF f = "none"
           THEN [Idle EXCEPT !.op = "getUserSessions", !.uid = uid, !.code = "OK",
                   !.ret = Some([k \in 1..Len(q) |-> SessionSummary(sessions, q[k])])]
           ELSE [Idle EXCEPT !.op = "getUserSessions", !.uid = uid, !.f = f,
                   !.code = "SESSIONS_FETCH_FAILED"]]
      /\ UNCHANGED <<users, sessions, nextSid, now, issued, recorded, jwtAlgorithm>>

\* getUserProfile(userId) is called.
GetUserProfile(Us, faulty) ==
  \E uid \in Us, f \in FaultChoice("getUserProfile", faulty) :
    Exec([Start("getUserProfile", f) EXCEPT !.uid = uid])

\* SpecFault: one account, and any one store call of a request may throw.
NextFault ==
  \/ Register(OneEmail, OnePassword, TRUE)
  \/ Login(OneEmail, Passwords, TRUE)
  \/ RefreshToken(TRUE)
  \/ Logout(TRUE)
  \/ ChangePassword(OneUser, OnePassword, TRUE)
  \/ RevokeSession(OneUser, TRUE)
  \/ RevokeAllSessions(OneUser, TRUE)
  \/ CleanupExpiredSessions(TRUE)
  \/ GetUserProfile(OneUser, TRUE)
  \/ GetUserSessions(OneUser, TRUE)
  \/ Tick

SpecFault == Init /\ [][NextFault]_vars

\* SessionRepository.updateSessionExpiry(sessionId, newExpiry): update throws
\* when no record has the id.
UpdateSessionExpiry ==
  \E sid \in 1..MaxSessions, e \in 0..(MaxTime + SessionHorizon) :
    /\ sessions' = IF sid \in DOMAIN sessions
                   THEN [sessions EXCEPT ![sid].expiresAt = e] ELSE sessions
    /\ frames' = [frames EXCEPT ![1] =
         [Idle EXCEPT !.op = "updateSessionExpiry", !.sid = sid,
                      !.code = IF sid \in DOMAIN sessions
                               THEN "OK" ELSE "Failed to update session expiry",
                      !.ret = IF sid \in DOMAIN sessions
                              THEN Some([sessions[sid] EXCEPT !.expiresAt = e])
                              ELSE Null]]
    /\ UNCHANGED <<users, nextSid, now, issued, recorded, jwtAlgorithm>>

\* SpecStore: one account and every writer of the Session table, the
\* repository's own updateSessionExpiry and cleanupExpiredSessions included.
NextStore ==
  \/ Register(OneEmail, OnePassword, FALSE)
  \/ RefreshToken(FALSE)
  \/ Logout(FALSE)
  \/ CleanupExpiredSessions(FALSE)
  \/ UpdateSessionExpiry
  \/ Tick

SpecStore == Init /\ [][NextStore]_vars

\* SpecShared: two accounts over time; sessions are listed and revoked.
TwoEmails == {<<"a">>, <<"b">>}

NextShared ==
  \/ Register(TwoEmails, OnePassword, FALSE)
  \/ Login(TwoEmails, OnePassword, FALSE)
  \/ Logout(FALSE)
  \/ RevokeSession(UserIds, FALSE)
  \/ RevokeAllSessions(UserIds, FALSE)
  \/ GetUserSessions(UserIds, FALSE)
  \/ Tick

SpecShared == Init /\ [][NextShared]_vars

\* The access tokens handed to validateAccessToken at time t: for every user
\* and issue time the token generateAccessToken makes, and its variants with
\* another type, issuer or audience, each signed under the secret with any
\* algorithm and under another key; a token whose payload was altered after
\* signing; a malformed one.
TokenInputs(us, t) ==
  LET genuine == {GenerateAccessToken(u, us[u], t0) : u \in DOMAIN us, t0 \in 0..t}
      payloads == {g.payload : g \in genuine}
                  \cup {[g.payload EXCEPT !.type = "refresh"] : g \in genuine}
                  \cup {[g.payload EXCEPT !.iss = "other-issuer"] : g \in genuine}
                  \cup {[g.payload EXCEPT !.aud = "other-audience"] : g \in genuine}
      signed == {JwtSign(pl, JwtSecret, a) : pl \in payloads, a \in JwtAlgorithms}
                \cup {JwtSign(pl, "other-secret", JwtDefaultAlgorithm) : pl \in payloads}
      altered == {[g EXCEPT !.payload.userId = 0] : g \in genuine}
      malformed == {[g EXCEPT !.wellFormed = FALSE] : g \in genuine}
  IN signed \cup altered \cup malformed

\* validateAccessToken is called; slot 2 keeps the call and its result.
ValidateAccessTokenCall ==
  \E tok \in TokenInputs(users, now) :
    LET v == ValidateAccessToken(tok, jwtAlgorithm, now) IN
    /\ frames' = [frames EXCEPT ![2] =
         [Idle EXCEPT !.op = "validateAccessToken", !.jwt = Some(tok),
                      !.at = now, !.code = v.code, !.ret = v.ret]]
    /\ UNCHANGED <<users, sessions, nextSid, now, issued, recorded, jwtAlgorithm>>

\* SpecToken: any configured algorithm; users register, time passes, and
\* access tokens of every kind are validated.
InitToken ==
  /\ users = <<>>
  /\ sessions = <<>>
  /\ nextSid = 1
  /\ now = 0
  /\ frames = [p \in Procs |-> Idle]
  /\ issued = <<>>
  /\ recorded = [u \in UserIds |-> 0]
  /\ jwtAlgorithm \in JwtAlgorithms

NextToken ==
  \/ Register(OneEmail, OnePassword, FALSE)
  \/ Tick
  \/ ValidateAccessTokenCall

SpecToken == InitToken /\ [][NextToken]_vars

\* What the store says of the user a token names, at the time of a request.
AccountStanding(us, ss, uid, t) ==
  [valid |-> uid \in DOMAIN us /\ us[uid].isActive /\ ~us[uid].isLocked,
   live |-> ActiveSessionIds(ss, uid, t) # {}]

\* The bearer tokens requests arrive with: access tokens as the service
\* signs them for its users.
BearerTokens(us, t) ==
  {GenerateAccessToken(u, us[u], t0) : u \in DOMAIN us, t0 \in 0..t}

\* Mutant of AuthenticateToken: the middleware also asks the store whether
\* the user is active and unlocked and has a live session.
AuthenticateToken_ChecksStore ==
  \E tok \in BearerTokens(users, now) :
    LET v == ValidateAccessToken(tok, jwtAlgorithm, now)
        standing == AccountStanding(users, sessions, tok.payload.userId, now)
        ok == v.ret # Null /\ standing.valid /\ standing.live IN
    /\ frames' = [frames EXCEPT ![2] =
         [Idle EXCEPT !.op = "authenticateToken", !.jwt = Some(tok), !.at = now,
                      !.code = IF ok THEN "OK" ELSE "INVALID_TOKEN",
                      !.ret = IF ok THEN v.ret ELSE Null,
                      !.hist = Some(standing)]]
    /\ UNCHANGED <<users, sessions, nextSid, now, issued, recorded, jwtAlgorithm>>

\* authenticateToken: a request with a bearer token passes the middleware,
\* which answers 401 INVALID_TOKEN when validateAccessToken returns null and
\* else attaches the decoded userId and email.  Slot 2 keeps the call, its
\* result and the user's standing in the store at that moment.
AuthenticateToken ==
  \E tok \in BearerTokens(users, now) :
    LET v == ValidateAccessToken(tok, jwtAlgorithm, now)
        standing == AccountStanding(users, sessions, tok.payload.userId, now) IN
    /\ frames' = [frames EXCEPT ![2] =
         [Idle EXCEPT !.op = "authenticateToken", !.jwt = Some(tok), !.at = now,
                      !.code = IF v.ret = Null THEN "INVALID_TOKEN" ELSE "OK",
                      !.ret = v.ret,
                      !.hist = Some(standing)]]
    /\ UNCHANGED <<users, sessions, nextSid, now, issued, recorded, jwtAlgorithm>>

\* SpecStateless: one account whose standing in the store changes (logout,
\* password change, revocation, lockout, deactivation) between requests
\* that present access tokens.
WrongPasswords == {"q"}

NextStateless ==
  \/ Register(OneEmail, OnePassword, FALSE)
  \/ Login(OneEmail, WrongPasswords, FALSE)
  \/ Logout(FALSE)
  \/ ChangePassword(OneUser, OnePassword, FALSE)
  \/ RevokeAllSessions(OneUser, FALSE)
  \/ AdminSetActive
  \/ Tick
  \/ AuthenticateToken

SpecStateless == Init /\ [][NextStateless]_vars

\* SpecRace: two requests in flight at once, interleaved at their store calls.
RaceEmails == {<<"a">>, <<"A">>}

\* refreshToken's tests: the session is not revoked and not expired, its owner
\* exists, is active and is not locked.
Refreshable(us, sess, t) ==
  /\ ~sess.isRevoked
  /\ ~SessionExpired(sess, t)
  /\ sess.userId \in DOMAIN us
  /\ us[sess.userId].isActive
  /\ ~us[sess.userId].isLocked

\* The requests that can arrive: register, login, refreshToken and logout.
RaceRequests ==
  {[Start("register", "none") EXCEPT !.email = e, !.pw = pw] :
     e \in RaceEmails, pw \in OnePassword}
  \cup {[Start("login", "none") EXCEPT !.email = e, !.pw = pw] :
          e \in RaceEmails, pw \in Passwords}
  \cup {[Start(op, "none") EXCEPT !.tok = tok] :
          op \in {"refreshToken", "logout"}, tok \in 1..MaxSessions}

\* A request arrives at slot p.
RaceBegin(p) ==
  /\ frames[p].pc = "done"
  /\ \E fr \in RaceRequests :
       /\ fr.op \in {"register", "login"} => nextSid <= MaxSessions
       /\ frames' = [frames EXCEPT ![p] =
            [fr EXCEPT !.hist = IF fr.tok \in DOMAIN sessions
                                THEN Some(Refreshable(users, sessions[fr.tok], now))
                                ELSE Null]]
  /\ UNCHANGED <<users, sessions, nextSid, now, issued, recorded, jwtAlgorithm>>

\* The request at slot p runs up to and including its next store call (session
\* ids are capped at MaxSessions: a request that would exceed it waits).
RaceStep(p) ==
  /\ frames[p].pc # "done"
  /\ LET fr == frames[p]
         o == Step(St(users, sessions, nextSid), fr, now)
     IN /\ o.S.nextSid <= MaxSessions + 1
        /\ Commit(o.S)
        /\ frames' = [frames EXCEPT ![p] = o.fr]
        /\ recorded' =
             IF fr.op = "login" /\ fr.pc = "hflUpdate"
             THEN [recorded EXCEPT ![fr.hid] = @ + 1]
             ELSE IF fr.op = "login" /\ fr.pc \in {"unlock", "reset"}
             THEN [recorded EXCEPT ![fr.uid] = 0]
             ELSE recorded
  /\ UNCHANGED <<now, jwtAlgorithm>>

NextRace == \E p \in Procs : RaceBegin(p) \/ RaceStep(p)

SpecRace == Init /\ [][NextRace]_vars

\* The requests of the password race: register, login and changePassword
\* for one account.
PasswordRaceRequests ==
  {[Start("register", "none") EXCEPT !.email = e, !.pw = pw] :
     e \in OneEmail, pw \in OnePassword}
  \cup {[Start("login", "none") EXCEPT !.email = e, !.pw = pw] :
          e \in OneEmail, pw \in Passwords}
  \cup {[Start("changePassword", "none") EXCEPT !.uid = uid, !.pw = pw, !.npw = npw] :
          uid \in OneUser, pw \in Passwords, npw \in Passwords}

\* A request of the password race arrives at slot p.
PasswordRaceBegin(p) ==
  /\ frames[p].pc = "done"
  /\ \E fr \in PasswordRaceRequests :
       /\ fr.op \in {"register", "login"} => nextSid <= MaxSessions
       \* changePassword is behind authenticateToken: its userId is that of
       \* an access token, and tokens are returned with a session
       /\ fr.op = "changePassword" => \E k \in DOMAIN issued : issued[k] = fr.uid
       /\ frames' = [frames EXCEPT ![p] = fr]
  /\ UNCHANGED <<users, sessions, nextSid, now, issued, recorded, jwtAlgorithm>>

\* SpecPasswordRace: two requests in flight, changePassword among them.
NextPasswordRace == \E p \in Procs : PasswordRaceBegin(p) \/ RaceStep(p)

SpecPasswordRace == Init /\ [][NextPasswordRace]_vars

\* ------------------------------------------------------------------ claims
\* The request that completed last (Spec, SpecMulti, SpecFault).
Last == frames[1]

Store == St(users, sessions, nextSid)

\* Case-insensitive equality of two e-mail addresses.
UpperChar(c) ==
  CASE c = "a" -> "A"
    [] c = "b" -> "B"
    [] OTHER -> c

SameIgnoringCase(x, y) ==
  /\ DOMAIN x = DOMAIN y
  /\ \A i \in DOMAIN x : UpperChar(x[i]) = UpperChar(y[i])

\* C1 (replay law): a refreshToken that finds its session revoked fails with
\* TokenReuseDetected, and right after it every session of the owning user is
\* revoked, so getUserSessions lists none.
C1_ReplayLaw ==
  (Last.op = "refreshToken" /\ Last.sess # Null /\ Last.sess[1].isRevoked) =>
    LET owner == Last.sess[1].userId IN
    /\ Last.code = "TOKEN_REUSE_DETECTED"
    /\ \A i \in DOMAIN sessions : sessions[i].userId = owner => sessions[i].isRevoked
    /\ ActiveSessionIds(sessions, owner, now) = {}

\* A replay was detected while the user held a session created later than the
\* presented one.
C1_Witness ==
  /\ Last.op = "refreshToken"
  /\ Last.code = "TOKEN_REUSE_DETECTED"
  /\ \E i \in DOMAIN sessions :
       /\ i # Last.sid
       /\ sessions[i].userId = Last.sess[1].userId
       /\ sessions[i].createdAt > Last.sess[1].createdAt

\* C2 (lockout): a wrong-password login on an active, unlocked account fails
\* with InvalidCredentials and counts one failure; the failure that reaches the
\* threshold (also answered InvalidCredentials) locks the account until
\* now + lockoutDuration; an unlocked account is always below the threshold; a
\* login while lockedUntil is in the future fails with AccountLocked whatever
\* the password.
C2_Lockout ==
  /\ \A u \in DOMAIN users :
       ~users[u].isLocked => users[u].failedLoginAttempts < MaxFailedLoginAttempts
  /\ (Last.op = "login" /\ Last.user # Null) =>
       LET u0 == Last.user[1]
           u == users[Last.uid]
       IN /\ (u0.isActive /\ ~u0.isLocked /\ u0.password # Hash(Last.pw)) =>
               /\ Last.code = "INVALID_CREDENTIALS"
               /\ u.failedLoginAttempts = u0.failedLoginAttempts + 1
               /\ IF u0.failedLoginAttempts + 1 = MaxFailedLoginAttempts
                  THEN u.isLocked /\ u.lockedUntil = Some(now + AccountLockoutDuration)
                  ELSE ~u.isLocked
          /\ (u0.isLocked /\ u0.lockedUntil # Null /\ u0.lockedUntil[1] > now) =>
               Last.code = "ACCOUNT_LOCKED"

\* A login with the correct password was refused because the account is locked.
C2_Witness ==
  /\ Last.op = "login"
  /\ Last.code = "ACCOUNT_LOCKED"
  /\ users[Last.uid].password = Hash(Last.pw)
  /\ users[Last.uid].failedLoginAttempts = MaxFailedLoginAttempts

\* C3 (unlock on expiry): a login with the correct password on an active
\* account that is locked with lockedUntil not in the future succeeds and
\* leaves isLocked=false, lockedUntil=null, failedLoginAttempts=0.
C3_UnlockOnExpiry ==
  (/\ Last.op = "login"
   /\ Last.user # Null
   /\ Last.user[1].isActive
   /\ Last.user[1].isLocked
   /\ (Last.user[1].lockedUntil = Null \/ Last.user[1].lockedUntil[1] <= now)
   /\ Last.user[1].password = Hash(Last.pw)) =>
    /\ Last.code = "OK"
    /\ ~users[Last.uid].isLocked
    /\ users[Last.uid].lockedUntil = Null
    /\ users[Last.uid].failedLoginAttempts = 0

\* A locked account logged in at the very instant its lock ran out.
C3_Witness ==
  /\ Last.op = "login"
  /\ Last.code = "OK"
  /\ Last.user # Null
  /\ Last.user[1].isLocked
  /\ Last.user[1].lockedUntil = Some(now)

\* The answer refreshToken would give now to the refresh token tok.
RefreshAnswer(tok) ==
  Run(Store, [Start("refreshToken", "none") EXCEPT !.tok = tok], now).fr.code

\* C4 as stated (password-change invalidation): right after a successful
\* changePassword every session of the user is revoked, and refreshToken with
\* any refresh token issued to the user before the change fails with
\* TokenReuseDetected.
C4_PasswordChangeAnyToken ==
  (Last.op = "changePassword" /\ Last.code = "OK") =>
    /\ \A i \in DOMAIN sessions : sessions[i].userId = Last.uid => sessions[i].isRevoked
    /\ \A tok \in 1..Len(issued) :
         issued[tok] = Last.uid => RefreshAnswer(tok) = "TOKEN_REUSE_DETECTED"

\* C4 (password-change invalidation, amended): right after a successful
\* changePassword every session of the user is revoked, and refreshToken with
\* a refresh token issued to the user before the change whose session record
\* is still stored fails with TokenReuseDetected; a token whose record was
\* deleted is answered InvalidRefreshToken.
C4_PasswordChangeStoredToken ==
  (Last.op = "changePassword" /\ Last.code = "OK") =>
    /\ \A i \in DOMAIN sessions : sessions[i].userId = Last.uid => sessions[i].isRevoked
    /\ \A tok \in 1..Len(issued) :
         issued[tok] = Last.uid =>
           RefreshAnswer(tok) = IF FindByRefreshToken(sessions, tok) # 0
                                THEN "TOKEN_REUSE_DETECTED"
                                ELSE "INVALID_REFRESH_TOKEN"

\* A password was changed while the user held two stored sessions, the later
\* of them not yet expired.
C4_Witness ==
  /\ Last.op = "changePassword"
  /\ Last.code = "OK"
  /\ \E i, j \in DOMAIN sessions :
       /\ i < j
       /\ sessions[i].userId = Last.uid
       /\ sessions[j].userId = Last.uid
       /\ sessions[j].expiresAt >= now

\* C5 (expiry law): a refreshToken on a session that is not revoked and whose
\* expiresAt is earlier than now fails with RefreshTokenExpired, leaves that
\* session revoked and changes no other session and no user.
C5_ExpiryLaw ==
  [][\A tok \in Tokens :
       LET sid == FindByRefreshToken(sessions, tok) IN
       (/\ frames'[1].op = "refreshToken"
        /\ frames'[1].tok = tok
        /\ sid # 0
        /\ ~sessions[sid].isRevoked
        /\ sessions[sid].expiresAt < now) =>
         /\ frames'[1].code = "REFRESH_TOKEN_EXPIRED"
         /\ sessions' = [sessions EXCEPT ![sid].isRevoked = TRUE]
         /\ users' = users]_vars

\* An expired refresh token was refused while another session was live.
C5_Witness ==
  /\ Last.op = "refreshToken"
  /\ Last.code = "REFRESH_TOKEN_EXPIRED"
  /\ sessions[Last.sid].isRevoked
  /\ \E i \in DOMAIN sessions :
       /\ i # Last.sid
       /\ sessions[i].userId = sessions[Last.sid].userId
       /\ ~sessions[i].isRevoked

\* The outcome of one more logout with the same refresh token, the store call
\* at f failing.
LogoutAgain(f) ==
  Run(Store, [Start("logout", f) EXCEPT !.tok = Last.tok], now)

C7_LoginSuccess ==
  [][LET fr == frames'[1]
         uid == FindUserByEmail(users, ToLowerCase(fr.email))
     IN (/\ fr.op = "login"
         /\ uid # 0
         /\ users[uid].isActive
         /\ ~users[uid].isLocked
         /\ users[uid].password = Hash(fr.pw)) =>
          /\ fr.code = "OK"
          /\ fr.sid \notin DOMAIN sessions
          /\ fr.sid > Len(issued)
          /\ sessions' = sessions @@
               (fr.sid :> [userId |-> uid,
                           refreshToken |-> fr.ret[1].refreshToken,
                           isRevoked |-> FALSE,
                           expiresAt |-> now + SessionHorizon,
                           createdAt |-> now])
          /\ fr.ret[1].accessToken.payload.userId = uid
          /\ fr.ret[1].accessToken.payload.type = "access"
          /\ users' = [users EXCEPT ![uid].failedLoginAttempts = 0]]_vars

\* A login succeeded on an account that had failed attempts on record.
C7_Witness ==
  /\ Last.op = "login"
  /\ Last.code = "OK"
  /\ Last.user[1].failedLoginAttempts > 0
  /\ ~Last.user[1].isLocked
  /\ users[Last.uid].failedLoginAttempts = 0

\* C8 (e-mail uniqueness): no two stored users have e-mails equal ignoring
\* case, and a register whose e-mail equals, ignoring case, that of a stored
\* user fails with UserExists and creates neither a user nor a session.
C8_EmailUnique ==
  [][/\ \A i, j \in DOMAIN users' :
          i # j => ~SameIgnoringCase(users'[i].email, users'[j].email)
     /\ (/\ frames'[1].op = "register"
         /\ \E i \in DOMAIN users : SameIgnoringCase(users[i].email, frames'[1].email)) =>
          /\ frames'[1].code = "USER_EXISTS"
          /\ users' = users
          /\ sessions' = sessions
          /\ nextSid' = nextSid]_vars

\* A register was refused for an address that differs from a stored one only
\* in case.
C8_Witness ==
  /\ Last.op = "register"
  /\ Last.code = "USER_EXISTS"
  /\ \E i \in DOMAIN users :
       users[i].email # Last.email /\ SameIgnoringCase(users[i].email, Last.email)

\* C9 (uniqueness race): when two register calls for the same normalized
\* e-mail run concurrently and one of them creates the user, the other fails
\* with UserExists, not with a generic error.
C9_RegisterRace ==
  (/\ \A p \in Procs : frames[p].op = "register" /\ frames[p].pc = "done"
   /\ SameIgnoringCase(frames[1].email, frames[2].email)
   /\ \E p \in Procs : frames[p].code = "OK") =>
    \E p, q \in Procs :
      /\ p # q
      /\ frames[p].code = "OK"
      /\ frames[q].code = "USER_EXISTS"

\* C10 (login lockout race): for every interleaving of concurrent
\* wrong-password logins, failedLoginAttempts equals the number of attempts
\* that recorded a failure since the last reset, and once threshold failures
\* were recorded the account is locked.
C10_AtomicCounting ==
  \A u \in DOMAIN users :
    /\ users[u].failedLoginAttempts = recorded[u]
    /\ recorded[u] >= MaxFailedLoginAttempts => users[u].isLocked

\* Slot p holds a finished logout and slot q a finished refreshToken of the
\* same token, both arrived while its session was active.
RevokeRaceOver(p, q) ==
  /\ frames[p].op = "logout" /\ frames[p].pc = "done"
  /\ frames[q].op = "refreshToken" /\ frames[q].pc = "done"
  /\ frames[p].tok = frames[q].tok
  /\ frames[p].hist = Some(TRUE)
  /\ frames[q].hist = Some(TRUE)

\* C11 (session revoke race): when logout(t) and refreshToken(t) for the same
\* active session run concurrently, under every interleaving the refresh
\* either succeeds or fails with TokenReuseDetected, and the session is
\* revoked once both have finished.
C11_RevokeRace ==
  \A p, q \in Procs :
    RevokeRaceOver(p, q) =>
      /\ frames[q].code \in {"OK", "TOKEN_REUSE_DETECTED"}
      /\ sessions[frames[p].tok].isRevoked

\* The refresh arrived while the session was active and read it after the
\* concurrent logout had revoked it.
C11_Witness ==
  \E p, q \in Procs :
    /\ RevokeRaceOver(p, q)
    /\ frames[q].code = "TOKEN_REUSE_DETECTED"

\* The refresh read the session before the concurrent logout revoked it.
C11_WitnessPreRevoke ==
  \E p, q \in Procs :
    /\ RevokeRaceOver(p, q)
    /\ frames[q].code = "OK"

\* The last validateAccessToken call (SpecToken).
Validated == frames[2]

\* The token was signed under the service's secret and not altered since.
WellSigned(tok) ==
  tok.wellFormed /\ tok.mac = <<tok.alg, "secret", tok.payload>>

\* C12 (validateAccessToken never raises): it returns normally for every
\* token; it returns null for a token that is expired, signed with another
\* key or altered, of a type other than "access", or malformed; and whenever
\* it returns a value the token is well signed, unexpired and of type
\* "access" and the value is the token's {userId, email}.
C12_ValidateNeverRaises ==
  Validated.op = "validateAccessToken" =>
    LET tok == Validated.jwt[1] IN
    /\ Validated.code = "OK"
    /\ (\/ ~tok.wellFormed
        \/ ~WellSigned(tok)
        \/ tok.payload.type # "access"
        \/ tok.payload.exp <= Validated.at) => Validated.ret = Null
    /\ Validated.ret # Null =>
         /\ WellSigned(tok)
         /\ tok.payload.type = "access"
         /\ Validated.at < tok.payload.exp
         /\ Validated.ret = Some([userId |-> tok.payload.userId,
                                  email |-> tok.payload.email])

\* A token that is in order except that it expires at this very instant was
\* refused.
C12_Witness ==
  /\ Validated.op = "validateAccessToken"
  /\ Validated.ret = Null
  /\ WellSigned(Validated.jwt[1])
  /\ Validated.jwt[1].alg = jwtAlgorithm
  /\ Validated.jwt[1].payload.type = "access"
  /\ Validated.jwt[1].payload.exp = Validated.at

\* A token was accepted.
C12_WitnessAccepted ==
  /\ Validated.op = "validateAccessToken"
  /\ Validated.ret # Null

\* C13 (issuer and audience are checked): validateAccessToken returns null
\* for every token that is correctly signed, unexpired and of type "access"
\* but whose issuer or audience differs from 'smart-task-ai2' /
\* 'smart-task-ai2-users'.
C13_IssuerAudienceChecked ==
  (/\ Validated.op = "validateAccessToken"
   /\ WellSigned(Validated.jwt[1])
   /\ Validated.jwt[1].payload.type = "access"
   /\ Validated.at < Validated.jwt[1].payload.exp
   /\ \/ Validated.jwt[1].payload.iss # "smart-task-ai2"
      \/ Validated.jwt[1].payload.aud # "smart-task-ai2-users") =>
    Validated.ret = Null

\* C14 (sign/verify round trip): under every configured algorithm a token
\* made by generateAccessToken for a user is accepted by validateAccessToken
\* before its expiry, with result {userId: user.id, email: user.email}.
C14_SignVerifyRoundTrip ==
  \A u \in DOMAIN users, t0 \in 0..MaxTime :
    (/\ Validated.op = "validateAccessToken"
     /\ Validated.jwt = Some(GenerateAccessToken(u, users[u], t0))
     /\ Validated.at < t0 + AccessTokenExpiry) =>
      Validated.ret = Some([userId |-> u, email |-> users[u].email])

\* C15 (revoke reports whether it changed anything): revokeSession returns
\* true exactly when a matching session existed with isRevoked=false and was
\* set to revoked by this call; it returns false when no session matches and
\* when the matching session was already revoked.
C15_RevokeReportsChange ==
  [][(frames'[1].op = "revokeSession" /\ frames'[1].code = "OK") =>
       (frames'[1].ret = Some(TRUE)) =
         (/\ frames'[1].sid \in DOMAIN sessions
          /\ sessions[frames'[1].sid].userId = frames'[1].uid
          /\ ~sessions[frames'[1].sid].isRevoked
          /\ sessions'[frames'[1].sid].isRevoked)]_vars

RevokeAllAgain(uid) ==
  Run(St(users', sessions', nextSid'),
      [Start("revokeAllSessions", "none") EXCEPT !.uid = uid], now').fr.ret

\* C17 (revokeAllSessions): it sets isRevoked=true on every session of the
\* user that was not revoked, expired or not, returns the number of sessions
\* it changed, leaves the sessions of every other user unchanged, and returns
\* 0 when called again immediately.
C17_RevokeAll ==
  [][frames'[1].op = "revokeAllSessions" =>
       LET uid == frames'[1].uid
           mine == {i \in DOMAIN sessions : sessions[i].userId = uid}
       IN /\ frames'[1].code = "OK"
          /\ DOMAIN sessions' = DOMAIN sessions
          /\ \A i \in mine : sessions'[i] = [sessions[i] EXCEPT !.isRevoked = TRUE]
          /\ \A i \in DOMAIN sessions \ mine : sessions'[i] = sessions[i]
          /\ frames'[1].ret =
               Some(Cardinality({i \in mine : ~sessions[i].isRevoked}))
          /\ RevokeAllAgain(uid) = Some(0)]_vars

\* revokeAllSessions revoked the expired session of one user while another
\* user held a live session.
C17_Witness ==
  /\ Last.op = "revokeAllSessions"
  /\ Last.ret = Some(1)
  /\ \E i, j \in DOMAIN sessions :
       /\ sessions[i].userId = Last.uid
       /\ sessions[i].expiresAt < now
       /\ sessions[j].userId # Last.uid
       /\ ~sessions[j].isRevoked

\* C18 (getUserSessions): it returns exactly the sessions of the user with
\* isRevoked=false and expiresAt > now, each once, newest first by createdAt.
C18_ActiveSessionsListed ==
  Last.op = "getUserSessions" =>
    LET r == Last.ret[1] IN
    /\ {r[k].id : k \in 1..Len(r)} =
         {i \in DOMAIN sessions : /\ sessions[i].userId = Last.uid
                                  /\ ~sessions[i].isRevoked
                                  /\ sessions[i].expiresAt > now}
    /\ \A k, l \in 1..Len(r) :
         k < l => (r[k].id # r[l].id /\ r[k].createdAt >= r[l].createdAt)
    /\ \A k \in 1..Len(r) :
         /\ r[k].createdAt = sessions[r[k].id].createdAt
         /\ r[k].expiresAt = sessions[r[k].id].expiresAt
         /\ r[k].isRevoked = FALSE

\* Two sessions of different age were listed, the newer first.
C18_Witness ==
  /\ Last.op = "getUserSessions"
  /\ Len(Last.ret[1]) = 2
  /\ Last.ret[1][1].createdAt > Last.ret[1][2].createdAt

\* A session was left out of the list at the very instant of its expiresAt.
C18_WitnessBoundary ==
  /\ Last.op = "getUserSessions"
  /\ Len(Last.ret[1]) = 1
  /\ \E i \in DOMAIN sessions :
       /\ sessions[i].userId = Last.uid
       /\ ~sessions[i].isRevoked
       /\ sessions[i].expiresAt = now

\* C19 (session states are terminal): a session that is revoked or expired
\* (expiresAt <= now) never becomes active again; isRevoked only changes from
\* false to true and no operation moves expiresAt of an existing session later.
C19_TerminalStates ==
  [][\A i \in DOMAIN sessions \cap DOMAIN sessions' :
       /\ sessions[i].isRevoked => sessions'[i].isRevoked
       /\ sessions'[i].expiresAt <= sessions[i].expiresAt
       /\ (sessions[i].isRevoked \/ sessions[i].expiresAt <= now) =>
            (sessions'[i].isRevoked \/ sessions'[i].expiresAt <= now')]_vars

C21_UserRevalidation ==
  [][\A sid \in DOMAIN sessions :
       LET sess == sessions[sid]
           owner == sess.userId IN
       ( /\ frames'[1].op = "refreshToken"
         /\ frames'[1].tok = sess.refreshToken
         /\ ~sess.isRevoked
         /\ sess.expiresAt > now
         /\ \/ owner \notin DOMAIN users
            \/ ~users[owner].isActive
            \/ users[owner].isLocked )
       => /\ frames'[1].code = "USER_INVALID"
          /\ frames'[1].ret = Null
          /\ sessions' = [sessions EXCEPT ![sid].isRevoked = TRUE]
          /\ users' = users]_vars

\* A refresh was refused for a user whose lock had already run out, and the
\* session it named is revoked.
C21_Witness ==
  /\ Last.op = "refreshToken"
  /\ Last.code = "USER_INVALID"
  /\ Last.sess # Null
  /\ ~Last.sess[1].isRevoked
  /\ sessions[Last.sid].isRevoked
  /\ LET u == users[Last.sess[1].userId] IN
       /\ u.isActive
       /\ u.isLocked
       /\ u.lockedUntil # Null
       /\ u.lockedUntil[1] < now

\* The failure of a login with a wrong password on the account uid.
WrongPasswordFailure(uid) ==
  Run(Store, [Start("login", "none") EXCEPT !.email = users[uid].email,
                                             !.pw = "not the password"], now).fr

\* C22 (login failures do not leak account existence): a login whose e-mail
\* matches no user fails with INVALID_CREDENTIALS, with the code and the
\* message that a wrong password gets on any active, unlocked account, and
\* changes no user and no session.
C22_NoExistenceLeak ==
  [][( /\ frames'[1].op = "login"
       /\ \A u \in DOMAIN users : ~SameIgnoringCase(users[u].email, frames'[1].email) )
     => /\ frames'[1].code = "INVALID_CREDENTIALS"
        /\ frames'[1].ret = Null
        /\ users' = users
        /\ sessions' = sessions
        /\ \A u \in DOMAIN users :
             (users[u].isActive /\ ~users[u].isLocked) =>
               /\ WrongPasswordFailure(u).code = frames'[1].code
               /\ WrongPasswordFailure(u).msg = frames'[1].msg
               /\ WrongPasswordFailure(u).ret = frames'[1].ret]_vars

\* A login with an e-mail of no account was refused while an active, unlocked
\* account with a live session existed.
C22_Witness ==
  /\ Last.op = "login"
  /\ Last.code = "INVALID_CREDENTIALS"
  /\ Last.msg = "Invalid email or password"
  /\ \A u \in DOMAIN users : ~SameIgnoringCase(users[u].email, Last.email)
  /\ \E u \in DOMAIN users : users[u].isActive /\ ~users[u].isLocked
  /\ \E sid \in DOMAIN sessions : ~sessions[sid].isRevoked

\* C23 (inactive accounts cannot log in): a login to an account with
\* isActive = false that is not locked with lockedUntil in the future fails
\* with ACCOUNT_INACTIVE whatever the password, creates no session and does
\* not raise failedLoginAttempts.
C23_InactiveCannotLogin ==
  [][\A u \in DOMAIN users :
       ( /\ frames'[1].op = "login"
         /\ SameIgnoringCase(users[u].email, frames'[1].email)
         /\ ~users[u].isActive
         /\ ~( /\ users[u].isLocked
               /\ users[u].lockedUntil # Null
               /\ users[u].lockedUntil[1] > now ) )
       => /\ frames'[1].code = "ACCOUNT_INACTIVE"
          /\ frames'[1].ret = Null
          /\ sessions' = sessions
          /\ nextSid' = nextSid
          /\ users'[u].failedLoginAttempts <= users[u].failedLoginAttempts]_vars

\* An inactive account with a failed attempt on record was refused a login
\* with a wrong password.
C23_Witness ==
  /\ Last.op = "login"
  /\ Last.code = "ACCOUNT_INACTIVE"
  /\ Last.user # Null
  /\ Last.user[1].password # Hash(Last.pw)
  /\ Last.user[1].failedLoginAttempts > 0
  /\ users[Last.uid].failedLoginAttempts = Last.user[1].failedLoginAttempts

\* An inactive account was refused a login with the right password.
C23_WitnessRightPassword ==
  /\ Last.op = "login"
  /\ Last.code = "ACCOUNT_INACTIVE"
  /\ Last.user # Null
  /\ Last.user[1].password = Hash(Last.pw)

\* C24 (changePassword failures leave state unchanged): changePassword for a
\* userId of no user fails with USER_NOT_FOUND, with a wrong current password
\* it fails with INVALID_PASSWORD, and either way no user record (digest,
\* failedLoginAttempts) and no session changes.
C24_ChangePasswordFailures ==
  [][frames'[1].op = "changePassword" =>
       LET uid == frames'[1].uid IN
       /\ uid \notin DOMAIN users =>
            /\ frames'[1].code = "USER_NOT_FOUND"
            /\ users' = users /\ sessions' = sessions
       /\ (uid \in DOMAIN users /\ users[uid].password # Hash(frames'[1].pw)) =>
            /\ frames'[1].code = "INVALID_PASSWORD"
            /\ users' = users /\ sessions' = sessions]_vars

\* A change of password was refused for a wrong current password while the
\* user had a live session and a failed login on record.
C24_Witness ==
  /\ Last.op = "changePassword"
  /\ Last.code = "INVALID_PASSWORD"
  /\ users[Last.uid].password # Hash(Last.pw)
  /\ users[Last.uid].failedLoginAttempts > 0
  /\ \E sid \in DOMAIN sessions :
       sessions[sid].userId = Last.uid /\ ~sessions[sid].isRevoked

\* A change of password was refused because no user has the id.
C24_WitnessNotFound ==
  /\ Last.op = "changePassword"
  /\ Last.code = "USER_NOT_FOUND"
  /\ Last.uid \notin DOMAIN users

\* C25 (audit completeness): every request that locks an account, unlocks an
\* account, detects the reuse of a token, revokes all sessions of a user or
\* changes a password emits, before it ends, at least one audit record that
\* names that user's id.
C25_AuditComplete ==
  [][\A u \in DOMAIN users :
       LET named == \E r \in frames'[1].audit : r[2] = u IN
       /\ (~users[u].isLocked /\ users'[u].isLocked) => named
       /\ (users[u].isLocked /\ ~users'[u].isLocked) => named
       /\ ( /\ frames'[1].code = "TOKEN_REUSE_DETECTED"
            /\ frames'[1].sess # Null
            /\ frames'[1].sess[1].userId = u ) => named
       /\ ( /\ frames'[1].op = "revokeAllSessions"
            /\ frames'[1].code = "OK"
            /\ frames'[1].uid = u ) => named
       /\ users'[u].password # users[u].password => named]_vars

\* Each of the five kinds of transition, seen with the audit records of the
\* request that made it.
C25_LockAudited ==
  /\ Last.op = "login"
  /\ <<"account_locked", Last.hid>> \in Last.audit
  /\ users[Last.hid].isLocked

C25_UnlockNotAudited ==
  /\ Last.op = "login"
  /\ Last.user # Null
  /\ Last.user[1].isLocked
  /\ ~users[Last.uid].isLocked
  /\ Last.audit = {}

\* C26 (error propagation): logout apart, a request one of whose store calls
\* failed ends with an error and never with a normal return value.
C26_OnlyLogoutSwallows ==
  ( /\ Last.op \in {"register", "login", "refreshToken", "changePassword",
                    "getUserProfile", "updateUserProfile", "getUserSessions",
                    "revokeSession", "revokeAllSessions"}
    /\ Last.f # "none" )
  => Last.code # "OK"

\* getUserSessions reported the failure of its store call.
C26_FetchFailureReported ==
  /\ Last.op = "getUserSessions"
  /\ Last.f # "none"
  /\ Last.code = "SESSIONS_FETCH_FAILED"

\* getUserProfile returned null for an existing user because its store call
\* failed.
C26_ProfileFailureSwallowed ==
  /\ Last.op = "getUserProfile"
  /\ Last.f # "none"
  /\ Last.code = "OK"
  /\ Last.ret = Null
  /\ Last.uid \in DOMAIN users

\* C27 (access tokens are stateless): two requests that present the same
\* access token at the same time get the same answer, whatever was done to
\* the user and the sessions between them.
C27_Stateless ==
  [][( /\ frames[2].op = "authenticateToken"
       /\ frames'[2].op = "authenticateToken"
       /\ frames'[2].jwt = frames[2].jwt
       /\ frames'[2].at = frames[2].at )
     => /\ frames'[2].ret = frames[2].ret
        /\ frames'[2].code = frames[2].code]_vars

\* A token was accepted although by then its user was deactivated or locked
\* and had no live session left.
C27_Witness ==
  /\ Validated.op = "authenticateToken"
  /\ Validated.code = "OK"
  /\ Validated.ret # Null
  /\ Validated.hist = Some([valid |-> FALSE, live |-> FALSE])

\* A token was accepted after its user had been locked out.
C27_WitnessLocked ==
  /\ Validated.op = "authenticateToken"
  /\ Validated.ret # Null
  /\ Validated.at = now
  /\ users[Validated.ret[1].userId].isLocked
  /\ Validated.hist = Some([valid |-> FALSE, live |-> TRUE])

\* The sessions of uid that are neither revoked nor past their expiry.
LiveSessionsOf(ss, uid, t) ==
  {i \in DOMAIN ss : ss[i].userId = uid /\ ~ss[i].isRevoked /\ ss[i].expiresAt > t}

\* C28 (one new session per register and login): a successful register or
\* login adds exactly one session, owned by the user, whose id and refresh
\* token no existing session has and whose token is the one returned; the
\* existing sessions stay as they were, so the user's list of active
\* sessions grows by one; a register adds exactly one user, with
\* isActive = true, isLocked = false and failedLoginAttempts = 0.
C28_OneNewSession ==
  [][(frames'[1].op \in {"register", "login"} /\ frames'[1].code = "OK") =>
       LET new == DOMAIN sessions' \ DOMAIN sessions
           uid == frames'[1].uid IN
       /\ Cardinality(new) = 1
       /\ \A n \in new :
            /\ sessions'[n].userId = uid
            /\ ~sessions'[n].isRevoked
            /\ frames'[1].ret # Null
            /\ frames'[1].ret[1].refreshToken = sessions'[n].refreshToken
            /\ \A i \in DOMAIN sessions :
                 sessions[i].refreshToken # sessions'[n].refreshToken
       /\ \A i \in DOMAIN sessions : sessions'[i] = sessions[i]
       /\ \A q \in ActiveSessionLists(sessions', uid, now) :
            Len(q) = Cardinality(LiveSessionsOf(sessions, uid, now)) + 1
       /\ frames'[1].op = "register" =>
            /\ DOMAIN users' \ DOMAIN users = {uid}
            /\ \A u \in DOMAIN users : users'[u] = users[u]
            /\ users'[uid].isActive
            /\ ~users'[uid].isLocked
            /\ users'[uid].failedLoginAttempts = 0
       /\ frames'[1].op = "login" => DOMAIN users' = DOMAIN users]_vars

\* A user logged in after registering: two live sessions with two tokens.
C28_Witness ==
  /\ Last.op = "login"
  /\ Last.code = "OK"
  /\ \E i, j \in LiveSessionsOf(sessions, Last.uid, now) :
       /\ i # j
       /\ sessions[i].refreshToken # sessions[j].refreshToken
       /\ Last.ret[1].refreshToken = sessions[j].refreshToken

\* getUserSessions returned two entries.
C28_WitnessListed ==
  /\ Last.op = "getUserSessions"
  /\ Last.code = "OK"
  /\ Len(Last.ret[1]) = 2
  /\ Last.ret[1][1].id # Last.ret[1][2].id

\* refreshToken with tok, run on the store S at time t.
RefreshOn(S, tok, t) ==
  Run(S, [Start("refreshToken", "none") EXCEPT !.tok = tok], t)

\* C29 (cleanup of expired sessions): cleanupExpiredSessions deletes exactly
\* the sessions whose expiresAt is before now, revoked or not, returns their
\* number and changes no other session and no user; a refreshToken that
\* then presents the token of a deleted session fails with
\* INVALID_REFRESH_TOKEN and leaves the store as it is.
C29_Cleanup ==
  [][(frames'[1].op = "cleanupExpiredSessions" /\ frames'[1].code = "OK") =>
       LET past == {i \in DOMAIN sessions : sessions[i].expiresAt < now}
           after == St(users', sessions', nextSid') IN
       /\ DOMAIN sessions' = DOMAIN sessions \ past
       /\ \A i \in DOMAIN sessions' : sessions'[i] = sessions[i]
       /\ frames'[1].ret = Some(Cardinality(past))
       /\ users' = users
       /\ \A i \in past :
            /\ RefreshOn(after, sessions[i].refreshToken, now).fr.code
                 = "INVALID_REFRESH_TOKEN"
            /\ RefreshOn(after, sessions[i].refreshToken, now).S = after]_vars

\* A cleanup deleted a session while another one, not yet past its expiry,
\* was kept; the deleted session's token is now unknown.
C29_Witness ==
  /\ Last.op = "cleanupExpiredSessions"
  /\ Last.code = "OK"
  /\ Last.ret # Null
  /\ Last.ret[1] >= 1
  /\ DOMAIN sessions # {}
  /\ \E tok \in 1..(nextSid - 1) :
       /\ tok \notin DOMAIN sessions
       /\ RefreshAnswer(tok) = "INVALID_REFRESH_TOKEN"

\* C30 (decision order of refreshToken): refreshToken answers by the first
\* test that applies to the state it reads: no session with the token,
\* INVALID_REFRESH_TOKEN and nothing changes; a revoked session,
\* TOKEN_REUSE_DETECTED, expired or not; a session past its expiry,
\* REFRESH_TOKEN_EXPIRED; an owner missing, inactive or locked,
\* USER_INVALID; otherwise an access token for the session's owner.  Every
\* call ends with exactly one of the five.
C30_DecisionOrder ==
  [][frames'[1].op = "refreshToken" =>
       LET fr == frames'[1]
           found == {i \in DOMAIN sessions : sessions[i].refreshToken = fr.tok} IN
       /\ fr.code \in {"INVALID_REFRESH_TOKEN", "TOKEN_REUSE_DETECTED",
                       "REFRESH_TOKEN_EXPIRED", "USER_INVALID", "OK"}
       /\ fr.code = "OK" <=> fr.ret # Null
       /\ found = {} =>
            /\ fr.code = "INVALID_REFRESH_TOKEN"
            /\ users' = users /\ sessions' = sessions /\ nextSid' = nextSid
       /\ \A i \in found :
            LET sess == sessions[i]
                owner == sess.userId
                invalid == \/ owner \notin DOMAIN users
                           \/ ~users[owner].isActive
                           \/ users[owner].isLocked IN
            /\ sess.isRevoked => fr.code = "TOKEN_REUSE_DETECTED"
            /\ (~sess.isRevoked /\ sess.expiresAt < now) =>
                 fr.code = "REFRESH_TOKEN_EXPIRED"
            /\ (~sess.isRevoked /\ sess.expiresAt > now /\ invalid) =>
                 fr.code = "USER_INVALID"
            /\ (~sess.isRevoked /\ sess.expiresAt > now /\ ~invalid) =>
                 /\ fr.code = "OK"
                 /\ fr.ret # Null
                 /\ fr.ret[1].accessToken.payload.userId = owner]_vars

\* A token whose session was both revoked and past its expiry was answered
\* as a reuse, and the owner was inactive or locked as well.
C30_Witness ==
  /\ Last.op = "refreshToken"
  /\ Last.code = "TOKEN_REUSE_DETECTED"
  /\ Last.sess # Null
  /\ Last.sess[1].isRevoked
  /\ Last.sess[1].expiresAt < now
  /\ LET u == users[Last.sess[1].userId] IN ~u.isActive \/ u.isLocked

\* A token whose session was past its expiry and not revoked was answered as
\* expired although its owner was inactive or locked.
C30_WitnessExpired ==
  /\ Last.op = "refreshToken"
  /\ Last.code = "REFRESH_TOKEN_EXPIRED"
  /\ Last.sess # Null
  /\ ~Last.sess[1].isRevoked
  /\ LET u == users[Last.sess[1].userId] IN ~u.isActive \/ u.isLocked

\* C31 (refresh only on active sessions): a refreshToken that succeeds does
\* so on a session that is not revoked and whose expiresAt is after now, that
\* is, on a session getUserSessions lists for its owner at that instant.
C31_RefreshOnlyActive ==
  (Last.op = "refreshToken" /\ Last.code = "OK") =>
    Last.sid \in ActiveSessionIds(sessions, Last.uid, now)

\* A refresh succeeded on a session whose expiresAt is now, which
\* getUserSessions does not list.
C31_RefreshedAtExpiry ==
  /\ Last.op = "refreshToken"
  /\ Last.code = "OK"
  /\ Last.ret # Null
  /\ sessions[Last.sid].expiresAt = now
  /\ ~sessions[Last.sid].isRevoked
  /\ \A q \in ActiveSessionLists(sessions, Last.uid, now) :
       \A k \in 1..Len(q) : q[k] # Last.sid

\* C32 (a running lock refuses every login): a login to an account that is
\* locked with lockedUntil after now fails with ACCOUNT_LOCKED, whatever the
\* password and the isActive flag, and changes no user and no session.
C32_LockedLoginChangesNothing ==
  [][\A u \in DOMAIN users :
       ( /\ frames'[1].op = "login"
         /\ SameIgnoringCase(users[u].email, frames'[1].email)
         /\ users[u].isLocked
         /\ users[u].lockedUntil # Null
         /\ users[u].lockedUntil[1] > now )
       => /\ frames'[1].code = "ACCOUNT_LOCKED"
          /\ frames'[1].ret = Null
          /\ users' = users
          /\ sessions' = sessions
          /\ nextSid' = nextSid]_vars

\* A locked account was refused a login with the right password.
C32_Witness ==
  /\ Last.op = "login"
  /\ Last.code = "ACCOUNT_LOCKED"
  /\ Last.user # Null
  /\ Last.user[1].password = Hash(Last.pw)
  /\ users[Last.uid] = Last.user[1]
  /\ users[Last.uid].lockedUntil[1] > now

\* A locked and deactivated account was refused a login with a wrong
\* password.
C32_WitnessInactive ==
  /\ Last.op = "login"
  /\ Last.code = "ACCOUNT_LOCKED"
  /\ Last.user # Null
  /\ Last.user[1].password # Hash(Last.pw)
  /\ ~users[Last.uid].isActive

\* C33 (the counter restarts after a lock): a login with a wrong password to
\* an active account whose lock has run out (isLocked, lockedUntil not after
\* now) fails with INVALID_CREDENTIALS and leaves the account unlocked, with
\* failedLoginAttempts = 1 and lockedUntil = null.
C33_CounterRestarts ==
  [][\A u \in DOMAIN users :
       ( /\ frames'[1].op = "login"
         /\ SameIgnoringCase(users[u].email, frames'[1].email)
         /\ users[u].isActive
         /\ users[u].isLocked
         /\ ~(users[u].lockedUntil # Null /\ users[u].lockedUntil[1] > now)
         /\ users[u].password # Hash(frames'[1].pw) )
       => /\ frames'[1].code = "INVALID_CREDENTIALS"
          /\ ~users'[u].isLocked
          /\ users'[u].failedLoginAttempts = 1
          /\ users'[u].lockedUntil = Null
          /\ sessions' = sessions]_vars

\* A wrong password after the lock ran out: the account, locked at the
\* threshold when the login read it, is unlocked with one failure on record.
C33_Witness ==
  /\ Last.op = "login"
  /\ Last.code = "INVALID_CREDENTIALS"
  /\ Last.user # Null
  /\ Last.user[1].isLocked
  /\ Last.user[1].failedLoginAttempts = MaxFailedLoginAttempts
  /\ ~users[Last.uid].isLocked
  /\ users[Last.uid].failedLoginAttempts = 1

\* C34 (lockout invariant): with requests executed one at a time from the
\* empty store, every user has 0 <= failedLoginAttempts <= threshold, is
\* locked exactly when failedLoginAttempts is the threshold, and then has a
\* lockedUntil.
C34_LockoutInvariant ==
  \A u \in DOMAIN users :
    /\ users[u].failedLoginAttempts >= 0
    /\ users[u].failedLoginAttempts <= MaxFailedLoginAttempts
    /\ users[u].isLocked <=> users[u].failedLoginAttempts = MaxFailedLoginAttempts
    /\ users[u].isLocked => users[u].lockedUntil # Null

\* An account at the threshold, locked, its lock already run out: the
\* unlock is pending until the next login.
C34_Witness ==
  \E u \in DOMAIN users :
    /\ users[u].isLocked
    /\ users[u].failedLoginAttempts = MaxFailedLoginAttempts
    /\ users[u].lockedUntil # Null
    /\ users[u].lockedUntil[1] < now
    /\ Last.op \in {"refreshToken", "logout", "changePassword"}

\* C35 (a lock holds under concurrency): once a user is locked with
\* lockedUntil after now, no step of concurrently running requests unlocks
\* the user or lowers failedLoginAttempts.
C35_LockHolds ==
  [][\A u \in DOMAIN users :
       ( /\ users[u].isLocked
         /\ users[u].lockedUntil # Null
         /\ users[u].lockedUntil[1] > now )
       => /\ users'[u].isLocked
          /\ users'[u].failedLoginAttempts >= users[u].failedLoginAttempts]_vars

\* A login with the right password read the user before a concurrent wrong
\* password locked it, and then cleared the running lock and logged in.
C35_LockCleared ==
  \E p \in Procs :
    /\ frames[p].op = "login"
    /\ frames[p].pc = "done"
    /\ frames[p].code = "OK"
    /\ frames[p].user # Null
    /\ ~frames[p].user[1].isLocked
    /\ frames[p].user[1].failedLoginAttempts > 0
    /\ recorded[frames[p].uid] = 0
    /\ ~users[frames[p].uid].isLocked
    /\ \E q \in Procs \ {p} :
         /\ frames[q].op = "login"
         /\ frames[q].pc = "done"
         /\ <<"account_locked", frames[p].uid>> \in frames[q].audit

\* C36 (no access token for a revoked session): under every interleaving a
\* refreshToken that returns an access token does so while the session it
\* presented is not revoked.
C36_NoTokenForRevoked ==
  [][\A p \in Procs :
       ( /\ frames[p].op = "refreshToken"
         /\ frames[p].pc # "done"
         /\ frames'[p].pc = "done"
         /\ frames'[p].code = "OK" )
       => /\ frames'[p].sid \in DOMAIN sessions'
          /\ ~sessions'[frames'[p].sid].isRevoked]_vars

\* C37 (a password change forces re-authentication under concurrency): once
\* a changePassword has returned successfully and its digest is the stored
\* one, every session created by a login or a register that verified
\* another digest is revoked.
C37_PasswordChangeRace ==
  \A p, q \in Procs :
    ( /\ frames[q].op = "changePassword"
      /\ frames[q].pc = "done"
      /\ frames[q].code = "OK"
      /\ users[frames[q].uid].password = Hash(frames[q].npw)
      /\ frames[p].op \in {"login", "register"}
      /\ frames[p].pc = "done"
      /\ frames[p].code = "OK"
      /\ frames[p].uid = frames[q].uid
      /\ frames[p].user[1].password # users[frames[q].uid].password )
    => sessions[frames[p].sid].isRevoked

\* Executed one after the other: the change of password revoked the session
\* of the login that had verified the old password.
C37_SequentialCase ==
  \E p, q \in Procs :
    /\ frames[q].op = "changePassword" /\ frames[q].pc = "done"
    /\ frames[q].code = "OK"
    /\ users[frames[q].uid].password = Hash(frames[q].npw)
    /\ frames[p].op = "login" /\ frames[p].pc = "done" /\ frames[p].code = "OK"
    /\ frames[p].user[1].password # users[frames[q].uid].password
    /\ sessions[frames[p].sid].isRevoked

\* C38 (a failed registration leaves no trace): whenever register fails, the
\* user records and the session records are those of before the call.
C38_FailedRegisterNoTrace ==
  [][(frames'[1].op = "register" /\ frames'[1].code # "OK")
     => users' = users /\ sessions' = sessions]_vars

\* A register failed while creating the session, and the user record it had
\* created stays: the same e-mail is now refused with USER_EXISTS.
C38_OrphanUser ==
  /\ Last.op = "register"
  /\ Last.code = "REGISTRATION_FAILED"
  /\ Last.f = "session"
  /\ Last.uid \in DOMAIN users
  /\ \A sid \in DOMAIN sessions : sessions[sid].userId # Last.uid
  /\ Run(Store, [Start("register", "none") EXCEPT !.email = Last.email,
                                                   !.pw = Last.pw], now).fr.code
       = "USER_EXISTS"

\* A register refused with USER_EXISTS changed nothing.
C38_RefusedExisting ==
  /\ Last.op = "register"
  /\ Last.code = "USER_EXISTS"

\* C39 (logout touches only the presented session): a logout changes no
\* user, creates and deletes no session, changes no session whose refresh
\* token is not the one presented, only sets isRevoked of the one presented
\* (or leaves it as it is when a store call failed), and never runs the
\* revoke-all of replay detection, also when the presented session is
\* already revoked.
C39_LogoutFrame ==
  [][frames'[1].op = "logout" =>
       /\ users' = users
       /\ DOMAIN sessions' = DOMAIN sessions
       /\ \A i \in DOMAIN sessions :
            IF sessions[i].refreshToken = frames'[1].tok
            THEN \/ sessions'[i] = [sessions[i] EXCEPT !.isRevoked = TRUE]
                 \/ frames'[1].f # "none" /\ sessions'[i] = sessions[i]
            ELSE sessions'[i] = sessions[i]
       /\ \A r \in frames'[1].audit :
            r[1] \notin {"all_sessions_revoked", "token_reuse_detected"}]_vars

\* A logout presented a token whose session was already revoked while the
\* same user had another, live session: that one is still live.
C39_Witness ==
  /\ Last.op = "logout"
  /\ Last.sess # Null
  /\ Last.sess[1].isRevoked
  /\ \E i \in DOMAIN sessions :
       /\ i # Last.sid
       /\ sessions[i].userId = Last.sess[1].userId
       /\ ~sessions[i].isRevoked

\* A logout revoked the session of one user while another user had a live
\* session, which stays live.
C39_WitnessOtherUser ==
  /\ Last.op = "logout"
  /\ Last.sess # Null
  /\ ~Last.sess[1].isRevoked
  /\ sessions[Last.sid].isRevoked
  /\ \E j \in DOMAIN sessions :
       sessions[j].userId # Last.sess[1].userId /\ ~sessions[j].isRevoked

\* C40 (recording a failed attempt is best-effort): when the store fails
\* while handleFailedLogin reads or updates the user, the wrong-password
\* login still fails with INVALID_CREDENTIALS, creates no session, and
\* failedLoginAttempts, isLocked and lockedUntil keep the values they had
\* when handleFailedLogin was called: those of before the login, or the
\* cleared ones if the login first unlocked a lock that had run out.
C40_BestEffortRecording ==
  [][\A u \in DOMAIN users :
       ( /\ frames'[1].op = "login"
         /\ frames'[1].f \in {"hflFind", "hflUpdate"}
         /\ SameIgnoringCase(users[u].email, frames'[1].email) )
       => /\ frames'[1].code = "INVALID_CREDENTIALS"
          /\ frames'[1].ret = Null
          /\ sessions' = sessions
          /\ users[u].password # Hash(frames'[1].pw)
          /\ users'[u] = IF users[u].isLocked
                         THEN [users[u] EXCEPT !.isLocked = FALSE,
                                               !.lockedUntil = Null,
                                               !.failedLoginAttempts = 0]
                         ELSE users[u]]_vars

\* The update of handleFailedLogin failed on an account with one failure on
\* record: the login answered INVALID_CREDENTIALS and the count is still 1.
C40_Witness ==
  /\ Last.op = "login"
  /\ Last.f = "hflUpdate"
  /\ Last.code = "INVALID_CREDENTIALS"
  /\ Last.user # Null
  /\ Last.user[1].failedLoginAttempts = 1
  /\ users[Last.uid] = Last.user[1]

\* The read of handleFailedLogin failed.
C40_WitnessRead ==
  /\ Last.op = "login"
  /\ Last.f = "hflFind"
  /\ Last.code = "INVALID_CREDENTIALS"
  /\ Last.user # Null
  /\ users[Last.uid] = Last.user[1]

====
